---- MODULE Spec2Model ----
(***************************************************************************)
(* terminal-coin-ticker: the HitBTC exchange client (clients/hitbtc.py on  *)
(* top of clients/__init__.py).  Tasks of one asyncio event loop call      *)
(* subscribe_ticker, unsubscribe_ticker and get_symbols; the receive task  *)
(* recv_handler dispatches each inbound frame through the consumer chain.  *)
(* A coroutine runs without interruption between two real suspension       *)
(* points (the poll sleep of check_replies, the socket read of             *)
(* recv_handler), so each action below is one such uninterrupted stretch.  *)
(*                                                                         *)
(* Spec is the client under any use of its public calls.  TickerSpec is    *)
(* the ticker program (ticker.py): do_run_ticker from the start of its     *)
(* task group (the row tasks and the watchdog _check_timestamps) through   *)
(* its teardown, on the same client.                                       *)
(***************************************************************************)
EXTENDS Integers, Sequences, FiniteSets, TLC

(* ------------------------------- bounds -------------------------------- *)

\* requests one client issues in a run (the code's counter is unbounded)
MaxRequests == 3

Callers == {"t1", "t2"}
Symbols == {"ETHBTC", "BCHBTC"}
\* field values of a ticker notification; 0 stands for absent or falsy
TickVals == {0, 1}
\* error codes of an error frame: one in errors_reference, one not
ErrorCodes == {2001, 7}

\* sum(widths) for the rows of the model, in columns
NeededColumns == 60
\* the widths of the terminal: one column short, just enough
Columns == {NeededColumns - 1, NeededColumns}

\* how far, in seconds, the elapsed times of the model lie from a whole
\* number of days, and the most days they span
MaxSkew == 20
MaxDays == 2

(* ------------------------ constants of the code ------------------------ *)

\* ticker.py: STALE_SECS = 15, POLL_INTERVAL = 10 (seconds)
STALE_SECS == 15
POLL_INTERVAL == 10
\* ticker.py: MAX_STALE = 0.5, as the ratio MaxStaleNum / MaxStaleDen
MaxStaleNum == 1
MaxStaleDen == 2
\* ticker.py: STRICT_TIME = True
STRICT_TIME == TRUE
\* timedelta.seconds is the seconds within the day, 0 .. 86399
SecondsPerDay == 86400
\* the clock advances in steps of one poll interval
TickSecs == POLL_INTERVAL

\* ticker.py: PULSE_OVER = 0.125 (percent), in 1/1000 percent
PULSE_OVER == 125
\* _paint_ticker_line: pulse_delay = 5 (percent), in 1/1000 percent
pulse_delay == 5000
\* _paint_ticker_line: ``_pulse_over -= Dec(1)``, in 1/1000 percent
PulseStep == 1000
\* ``_pulse_over / 100``, for a threshold given in 1/1000 percent
PerCent == 100000
\* do_run_ticker: max_tries = 3
MaxTries == 3
\* do_run_ticker: asyncio.Semaphore(1)
SemaphoreValue == 1
\* prices are in 1/1000; Dec(client.symbols[sym]["tick"]) is 0.01
tick == 10

\* ExchangeClient.__init__: self._consumers = {self.consume_response: 0}
ResponsePriority == 0
\* subscribe_ticker: self.add_consumer(self.consume_ticker_notes, 5)
TickerPriority == 5
\* HitBTCClient.__init__: self.rqids = iter(range(1, sys.maxsize))
FirstRqid == 1

\* the keys consume_ticker_notes copies ("time" and "last" stand for the
\* seven keys of the tuple, which the loop treats alike)
keys == {"time", "last"}

\* _check_timestamps: ``client.ticker[sym]["time"] = None``; the null a
\* timestamp field holds once the watchdog has marked it (field values are
\* numbers, so the null of a field is a number no notification carries)
NullTime == -1

\* Python None; every value a consumer or a call returns is a record
None == [kind |-> "None"]

\* errors_reference: code -> HTTP-style status (the docs string is dropped)
errors_reference == [code \in {2001} |-> 400]

VARIABLES
    rqids,                 \* next value of iter(range(1, sys.maxsize))
    replies,               \* self.replies: rqid -> result
    ticker,                \* self.ticker: symbol -> (key -> value)
    symbols,               \* self.symbols: None or the cached result
    ticker_subscriptions,  \* self.ticker_subscriptions
    _consumers,            \* self._consumers: handler -> priority
    consumers,             \* self.consumers: the ranked chain
    pc,                    \* per task: "idle" or "await" (inside check_replies)
    call,                  \* per task: the call it is suspended in
    ret,                   \* per task: what its last finished call returned
                           \* (with the rqid and the value check_replies
                           \* gave it, when it went through check_replies)
    wire,                  \* requests sent that the exchange has not handled
    xsubs,                 \* the exchange's side of the ticker subscriptions
    xlog,                  \* what the exchange did with each request id
    issued,                \* history: the ids prep_request returned, in order
    taken,                 \* history: rqid -> times check_replies consumed it
    invoked,               \* history: when the latest step was a dispatch
                           \* of recv_handler, the chain and registry it
                           \* started from and the consumers it ran, each
                           \* with whether it returned non-null
    phase,                 \* do_run_ticker: "off", "gathered" (awaits the
                           \* task group), "unsubscribing" (awaits the
                           \* teardown gather) or "returned"
    task,                  \* the task group: task -> "pending",
                           \* "cancelling" (cancel() was called on it while
                           \* suspended), "returned", "raised", "cancelled",
                           \* "spinning" (in a loop that never awaits)
    stale_subs,            \* _check_timestamps: its local stale_subs
    cursor,                \* _check_timestamps: position in cycle(all_subs)
    timer,                 \* seconds left of the watchdog's sleep
    age,                   \* symbol -> utcnow() less the last timestamp a
                           \* notification stored for it, in seconds
    out_futs,              \* do_run_ticker: the dict it returns
    sig_armed,             \* rt_sig_cb is the installed SIGINT handler
    logfile,               \* LOGFILE is set
    kills,                 \* history: calls of kill_handler by the watchdog
    torn,                  \* history of the teardown: whether the
                           \* unsubscribe step was started, how it failed,
                           \* and out_futs as it stood before that step
    recv,                  \* active_recv_Task: "running", "died" (the loop
                           \* of recv_handler ended by an exception or by
                           \* the end of the stream) or "closed" (__aexit__)
    strict,                \* the ``strict`` argument of _check_timestamps
    quantize,              \* client.quantize: "True", or "absent" (the
                           \* client has no such attribute)
    semaphore,             \* do_run_ticker: the value of asyncio.Semaphore(1)
    snapshots,             \* do_run_ticker: snapshots, symbol -> the dict a
                           \* row keeps as last_seen (one object: last_seen
                           \* is what snapshots.setdefault returned)
    pulse,                 \* per row: "none", "+" or "-"
    _pulse_over,           \* per row: its threshold, in 1/1000 percent
    latest,                \* per row: the frame it is about to print (with
                           \* its kind, and the threshold the iteration
                           \* started from)
    frame,                 \* per row: the kind of frame last printed
    pcr,                   \* per row: "sleep" (suspended in asyncio.sleep),
                           \* "gate" (at ``with await semaphore``), "write"
                           \* (inside the with block), "wait" (suspended in
                           \* semaphore.acquire)
    cpu,                   \* the row the event loop is running, or "none"
    max_tries,             \* do_run_ticker: tries left of its wait for data
    columns,               \* os.get_terminal_size().columns
    heading,               \* _print_heading has printed
    pair,                  \* canonicalize_pair: its argument, a string as
                           \* the sequence of its characters
    canon,                 \* canonicalize_pair: what the call came to
    listing,               \* client.symbols as a table: key -> its base
                           \* and quote currencies
    vol_unit,              \* the global VOL_UNIT (<<>> when it is null)
    ranked_syms,           \* do_run_ticker: the set of its ``ranked``
    chosen_subs,           \* do_run_ticker: all_subs once it is computed,
                           \* or the error it returned instead
    conv_read,             \* _convert_volume: the latest call, with the key
                           \* of client.ticker it read for the rate
    elapsed,               \* utcnow() less the timestamp the watchdog is
                           \* looking at, in whole seconds (negative when
                           \* the timestamp is ahead of the local clock)
    judged,                \* what the watchdog made of that timestamp
    streams,               \* BinanceClient: self.streams
    lock,                  \* BinanceClient: the task that holds self.lock,
                           \* or "none"
    conn,                  \* BinanceClient: self._conn, the streams of its
                           \* websocket and the state of active_recv_Task
    settled,               \* _reload: its local ``settled``
    url                    \* _reload: the streams of the url it connects to

vars == <<rqids, replies, ticker, symbols, ticker_subscriptions, _consumers,
          consumers, pc, call, ret, wire, xsubs, xlog, issued,
          taken, invoked, phase, task, stale_subs, cursor, timer, age,
          out_futs, sig_armed, logfile, kills, torn, recv, strict,
          quantize, semaphore, snapshots, pulse, _pulse_over, latest, frame,
          pcr, cpu, max_tries, columns, heading, pair, canon, listing,
          vol_unit, ranked_syms, chosen_subs, conv_read, elapsed, judged,
          streams, lock, conn, settled, url>>

setupVars == <<max_tries, columns, heading>>

\* the arguments and results of the helpers of the clients and the ticker
convVars == <<listing, vol_unit, ranked_syms, chosen_subs, conv_read>>
clockVars == <<elapsed, judged>>
binVars == <<streams, lock, conn, settled, url>>
toolVars == <<pair, canon, convVars, clockVars, binVars>>

engineVars == <<recv, strict>>

paintVars == <<quantize, semaphore, snapshots, pulse, _pulse_over, latest,
               frame, pcr, cpu>>

\* what the client on its own leaves alone, and what the task group does
offVars == <<engineVars, paintVars, setupVars, toolVars>>

appVars == <<phase, task, stale_subs, cursor, timer, age, out_futs,
             sig_armed, logfile, kills, torn>>

clientVars == <<rqids, replies, ticker, symbols, ticker_subscriptions,
                _consumers, consumers>>
callerVars == <<pc, call, ret>>
netVars == <<wire, xsubs, xlog>>
histVars == <<issued, taken, invoked>>

(* ------------------------------ helpers -------------------------------- *)

\* d with key k removed (del d[k])
DictDel(d, k) == [x \in DOMAIN d \ {k} |-> d[x]]

\* d.update({k: v})
DictPut(d, k, v) == [x \in DOMAIN d \cup {k} |-> IF x = k THEN v ELSE d[x]]

\* the return slot of a task whose call has not returned
Unset == [kind |-> "unset"]

\* the value of ``invoked`` when the latest step was no dispatch
NoDispatch == [chain |-> <<>>, reg |-> <<>>, ran |-> <<>>]

\* the value of ``torn`` before the teardown
NoTeardown == [ran |-> FALSE, failed |-> "none", before |-> <<>>]

\* the tasks of do_run_ticker's group: a row per ranked symbol, and ts_chk
Rows == {"row1", "row2"}
Tasks == Rows \cup {"ts_chk"}

\* a task that is inside no call
NoCall == [op |-> "none", sym |-> "none", rqid |-> 0]

\* sorted((weight, func) ...) compares the functions when two weights are
\* equal, and bound methods do not compare: TypeError
SortRaises(reg) ==
    \E f, g \in DOMAIN reg : f # g /\ reg[f] = reg[g]

\* [func for weight, func in sorted((weight, func) for func, weight in
\*  self._consumers.items())]
RankedConsumers(reg) ==
    CHOOSE seq \in [1..Cardinality(DOMAIN reg) -> DOMAIN reg] :
        /\ \A i, j \in DOMAIN seq : i < j => reg[seq[i]] < reg[seq[j]]
        /\ \A f \in DOMAIN reg : \E i \in DOMAIN seq : seq[i] = f

\* an add_consumer that registers nothing
AddConsumerRegNothing(reg, consumer, priority, update) == reg

\* add_consumer(consumer, priority, update): the registry afterwards
AddConsumerReg(reg, consumer, priority, update) ==
    IF update \/ consumer \notin DOMAIN reg
    THEN DictPut(reg, consumer, priority)
    ELSE reg

\* add_consumer: the chain afterwards (left as it was when sorted raises)
AddConsumerChain(reg, chain, consumer, priority, update) ==
    LET new == AddConsumerReg(reg, consumer, priority, update)
    IN  IF SortRaises(new) THEN chain ELSE RankedConsumers(new)

\* remove_consumer(consumer): the registry afterwards (KeyError is passed)
RemoveConsumerReg(reg, consumer) ==
    IF consumer \in DOMAIN reg THEN DictDel(reg, consumer) ELSE reg

\* remove_consumer: the chain afterwards
RemoveConsumerChain(reg, chain, consumer) ==
    LET new == RemoveConsumerReg(reg, consumer)
    IN  IF SortRaises(new) THEN chain ELSE RankedConsumers(new)

\* prep_request with rqid=None: the id it returns, next(self.rqids)
PrepRequestId(counter) == counter

\* a prep_request whose counter does not advance
PrepRequestStuck(counter) == counter

\* prep_request: the iterator afterwards
PrepRequestNext(counter) == counter + 1

(* ------------------------------- Init ---------------------------------- *)

\* no row task has been created, or the rows are not followed
NoRows ==
    /\ quantize = "absent"
    /\ semaphore = SemaphoreValue
    /\ snapshots = <<>>
    /\ pulse = [r \in Rows |-> "none"]
    /\ _pulse_over = [r \in Rows |-> PULSE_OVER + pulse_delay]
    /\ latest = [r \in Rows |-> <<>>]
    /\ frame = [r \in Rows |-> "none"]
    /\ pcr = [r \in Rows |-> "sleep"]
    /\ cpu = "none"

\* _convert_volume and the preparation of all_subs have not run
NoConversion ==
    /\ listing = <<>>
    /\ vol_unit = <<>>
    /\ ranked_syms = {}
    /\ chosen_subs = [kind |-> "none"]
    /\ conv_read = [kind |-> "none"]

\* BinanceClient.__init__: no stream, the lock free, no connection
NoConn == [streams |-> {}, recv |-> "none"]

Constructed ==
    /\ streams = {}
    /\ lock = "none"
    /\ conn = NoConn
    /\ settled = {}
    /\ url = {}

\* the watchdog has judged no timestamp
NoJudgement ==
    /\ elapsed = 0
    /\ judged = "none"

\* what _convert_volume and all_subs start from, but for ``ranked``
NoVolumeUnit ==
    /\ listing = <<>>
    /\ vol_unit = <<>>
    /\ chosen_subs = [kind |-> "none"]
    /\ conv_read = [kind |-> "none"]

\* no helper has been called
NoTools ==
    /\ pair = <<>>
    /\ canon = [kind |-> "none"]
    /\ NoConversion
    /\ NoJudgement
    /\ Constructed

\* do_run_ticker is past its setup, or is not running
NoSetup ==
    /\ max_tries = MaxTries
    /\ columns = NeededColumns
    /\ heading = FALSE


Init ==
    /\ rqids = FirstRqid
    /\ replies = <<>>
    /\ ticker = <<>>
    /\ symbols = None
    /\ ticker_subscriptions = {}
    /\ _consumers = [h \in {"consume_response"} |-> ResponsePriority]
    /\ consumers = <<"consume_response">>
    /\ pc = [c \in Callers |-> "idle"]
    /\ call = [c \in Callers |-> NoCall]
    /\ ret = [c \in Callers |-> Unset]
    /\ wire = {}
    /\ xsubs = {}
    /\ xlog = <<>>
    /\ issued = <<>>
    /\ taken = <<>>
    /\ invoked = NoDispatch
    /\ phase = "off"
    /\ task = [t \in Tasks |-> "pending"]
    /\ stale_subs = {}
    /\ cursor = 1
    /\ timer = 0
    /\ age = [s \in Symbols |-> 0]
    /\ out_futs = <<>>
    /\ sig_armed = FALSE
    /\ logfile = FALSE
    /\ kills = 0
    /\ torn = NoTeardown
    /\ recv = "running"
    /\ strict = STRICT_TIME
    /\ NoRows
    /\ NoSetup
    /\ NoTools

(* --------------------------- the consumers ----------------------------- *)

\* consume_response, error branch: the error dict it returns, with the
\* status of errors_reference merged in when the code is listed there
MappedError(error) ==
    IF error.code \in DOMAIN errors_reference
    THEN [kind |-> "error", code |-> error.code,
          status |-> errors_reference[error.code]]
    ELSE [kind |-> "error", code |-> error.code]

\* consume_response(message): its return value
ConsumeResponseReturn(message) ==
    IF "error" \in DOMAIN message THEN MappedError(message.error) ELSE None

\* consume_response(message): self.replies afterwards
ConsumeResponseReplies(rep, message) ==
    IF "error" \in DOMAIN message THEN rep
    ELSE IF "id" \notin DOMAIN message THEN rep
    ELSE DictPut(rep, message.id,
                 IF "result" \in DOMAIN message THEN message.result ELSE None)

\* message.get("method", message.get("channel")) != "ticker"
NotTickerMessage(message) ==
    ~ ("method" \in DOMAIN message /\ message.method = "ticker")

\* existing.update(dict(filter(itemgetter(1), ...))): the truthy retained
\* keys of the notification written over the existing entry
MergedEntry(existing, new_data) ==
    [k \in DOMAIN existing \cup {x \in keys : new_data[x] # 0} |->
        IF k \in keys /\ new_data[k] # 0 THEN new_data[k] ELSE existing[k]]

\* self.ticker.setdefault(new_data["symbol"], {})
ExistingEntry(tk, sym) == IF sym \in DOMAIN tk THEN tk[sym] ELSE <<>>

\* consume_ticker_notes(message): self.ticker afterwards
TickerNotesTicker(subs, tk, message) ==
    IF subs = {} \/ NotTickerMessage(message) THEN tk
    ELSE LET new_data == message.params
         IN  DictPut(tk, new_data.symbol,
                     MergedEntry(ExistingEntry(tk, new_data.symbol), new_data))

\* consume_ticker_notes(message): its return value, None or the dict
\* ``existing`` (which is never None)
TickerNotesReturn(subs, message) ==
    IF subs = {} \/ NotTickerMessage(message) THEN None
    ELSE [kind |-> "entry", symbol |-> message.params.symbol]

\* a consume_ticker_notes that retires the reply correlator
RetiresResponse == "consume_response"

\* consume_ticker_notes: the handler it passes to remove_consumer when the
\* subscription set is empty
TickerNotesRetires == "consume_ticker_notes"

\* one consumer applied to the message: the client state afterwards and
\* the value the consumer returned
ApplyConsumer(h, message, st) ==
    IF h = "consume_response"
    THEN [st  |-> [st EXCEPT !.replies = ConsumeResponseReplies(@, message)],
          out |-> ConsumeResponseReturn(message)]
    ELSE [st  |-> IF ticker_subscriptions = {}
                  THEN [st EXCEPT
                          !.reg = RemoveConsumerReg(st.reg, TickerNotesRetires),
                          !.chain = RemoveConsumerChain(st.reg, st.chain,
                                                        TickerNotesRetires)]
                  ELSE [st EXCEPT !.ticker =
                          TickerNotesTicker(ticker_subscriptions, @, message)],
          out |-> TickerNotesReturn(ticker_subscriptions, message)]

\* a recv_handler without its ``break``
NeverShortCircuits(out) == FALSE

\* recv_handler: ``if await consumer(message) is not None: break``
ShortCircuits(out) == out # None

\* recv_handler: ``for consumer in self.consumers`` over the list object
\* bound at the start of the loop
RECURSIVE RunChain(_, _, _, _)
RunChain(chain, message, st, inv) ==
    IF chain = <<>> THEN [st |-> st, inv |-> inv]
    ELSE LET r == ApplyConsumer(Head(chain), message, st)
             ran == Append(inv, <<Head(chain), r.out # None>>)
         IN  IF ShortCircuits(r.out)
             THEN [st |-> r.st, inv |-> ran]
             ELSE RunChain(Tail(chain), message, r.st, ran)

\* recv_handler: one frame read from the websocket, decoded and dispatched
RecvHandler(message) ==
    /\ recv = "running"
    /\ LET r == RunChain(consumers, message,
                         [replies |-> replies, ticker |-> ticker,
                          reg |-> _consumers, chain |-> consumers], <<>>)
       IN  /\ replies' = r.st.replies
           /\ ticker' = r.st.ticker
           /\ _consumers' = r.st.reg
           /\ consumers' = r.st.chain
           /\ invoked' = [chain |-> consumers, reg |-> _consumers,
                          ran |-> r.inv]
    /\ UNCHANGED <<rqids, symbols, ticker_subscriptions, callerVars,
                   issued, taken>>

(* ------------------------- the calling tasks --------------------------- *)

\* check_replies: ``while rqid not in self.replies`` has ended
CheckRepliesReady(rep, rqid) == rqid \in DOMAIN rep

\* a check_replies that hands out whichever reply is there (a reply queue
\* in place of the keyed table)
CheckRepliesAnyResult(rep, rqid) == rep[CHOOSE k \in DOMAIN rep : TRUE]

\* check_replies: ``result = self.replies[rqid]``
CheckRepliesResult(rep, rqid) == rep[rqid]

\* a check_replies without its ``del``
CheckRepliesKeeps(rep, rqid) == rep

\* check_replies: ``del self.replies[rqid]``
CheckRepliesReplies(rep, rqid) == DictDel(rep, rqid)

\* a subscribe_ticker without its guard
NeverSubscribed(symbol, subs) == FALSE

\* subscribe_ticker: ``if symbol in self.ticker_subscriptions``
AlreadySubscribed(symbol, subs) == symbol \in subs

\* unsubscribe_ticker: ``if symbol not in self.ticker_subscriptions``
AlreadyUnsubscribed(symbol, subs) == symbol \notin subs

\* unsubscribe_ticker: ``self.ticker_subscriptions.discard(symbol)``
Discard(subs, symbol) == subs \ {symbol}

\* get_symbols: the table built from the reply, {s["id"]: dict(...) for s
\* in result} (its content is not modelled)
SymbolsFrom(result) == [kind |-> "table"]

\* the bookkeeping of a call that returns at once (kind "None": the call
\* returned None, and op names the call)
ReturnsAtOnce(c, value) ==
    /\ ret' = [ret EXCEPT ![c] = value]
    /\ invoked' = NoDispatch
    /\ UNCHANGED <<pc, call, issued, taken>>

\* prep_request and do_send, then the task enters check_replies
SendsRequest(c, op, method, symbol) ==
    LET rqid == PrepRequestId(rqids)
    IN  /\ rqids' = PrepRequestNext(rqids)
        /\ issued' = Append(issued, rqid)
        /\ wire' = wire \cup {[method |-> method, symbol |-> symbol,
                               id |-> rqid]}
        /\ call' = [call EXCEPT ![c] = [op |-> op, sym |-> symbol,
                                        rqid |-> rqid]]
        /\ ret' = [ret EXCEPT ![c] = Unset]
        /\ pc' = [pc EXCEPT ![c] = "await"]
        /\ invoked' = NoDispatch
        /\ UNCHANGED taken

\* subscribe_ticker(symbol) up to its first suspension in check_replies
SubscribeTicker(c, symbol) ==
    /\ pc[c] = "idle"
    /\ IF AlreadySubscribed(symbol, ticker_subscriptions)
       THEN /\ ReturnsAtOnce(c, [kind |-> "None", op |-> "subscribe_ticker"])
            /\ UNCHANGED <<clientVars, netVars>>
       ELSE /\ SendsRequest(c, "subscribe_ticker", "subscribeTicker", symbol)
            /\ ticker_subscriptions' = ticker_subscriptions \cup {symbol}
            /\ _consumers' = AddConsumerReg(_consumers, "consume_ticker_notes",
                                            TickerPriority, FALSE)
            /\ consumers' = AddConsumerChain(_consumers, consumers,
                                             "consume_ticker_notes",
                                             TickerPriority, FALSE)
            /\ UNCHANGED <<replies, ticker, symbols, xsubs, xlog>>

\* unsubscribe_ticker(symbol) up to its first suspension in check_replies
UnsubscribeTicker(c, symbol) ==
    /\ pc[c] = "idle"
    /\ IF AlreadyUnsubscribed(symbol, ticker_subscriptions)
       THEN /\ ReturnsAtOnce(c, [kind |-> "None",
                                   op |-> "unsubscribe_ticker"])
            /\ UNCHANGED <<clientVars, netVars>>
       ELSE /\ SendsRequest(c, "unsubscribe_ticker", "unsubscribeTicker",
                            symbol)
            /\ UNCHANGED <<replies, ticker, symbols, ticker_subscriptions,
                           _consumers, consumers, xsubs, xlog>>

\* get_symbols() up to its first suspension in check_replies
GetSymbols(c) ==
    /\ pc[c] = "idle"
    /\ IF symbols # None
       THEN /\ ReturnsAtOnce(c, [kind |-> "symbols"])
            /\ UNCHANGED <<clientVars, netVars>>
       ELSE /\ SendsRequest(c, "get_symbols", "getSymbols", "none")
            /\ UNCHANGED <<replies, ticker, symbols, ticker_subscriptions,
                           _consumers, consumers, xsubs, xlog>>

\* check_replies finds its rqid in self.replies, and the caller runs on to
\* its return (the poll that does not find it changes nothing)
CheckReplies(c) ==
    /\ pc[c] = "await"
    /\ CheckRepliesReady(replies, call[c].rqid)
    /\ LET rqid == call[c].rqid
           result == CheckRepliesResult(replies, rqid)
       IN  /\ replies' = CheckRepliesReplies(replies, rqid)
           /\ taken' = DictPut(taken, rqid,
                               IF rqid \in DOMAIN taken THEN taken[rqid] + 1
                               ELSE 1)
           /\ ticker_subscriptions' =
                IF call[c].op = "unsubscribe_ticker"
                THEN Discard(ticker_subscriptions, call[c].sym)
                ELSE ticker_subscriptions
           /\ symbols' = IF call[c].op = "get_symbols"
                         THEN SymbolsFrom(result) ELSE symbols
           /\ ret' = [ret EXCEPT ![c] =
                        [kind  |-> IF call[c].op = "get_symbols"
                                   THEN "symbols" ELSE "exited",
                         rqid  |-> rqid,
                         reply |-> result]]
    /\ pc' = [pc EXCEPT ![c] = "idle"]
    /\ call' = [call EXCEPT ![c] = NoCall]
    /\ invoked' = NoDispatch
    /\ UNCHANGED <<rqids, ticker, _consumers, consumers, netVars, issued>>

(* ---------------------------- the exchange ----------------------------- *)

(* A websocket delivers the exchange's frames in the order they were      *)
(* written and the client cannot see a frame before recv_handler reads    *)
(* it, so writing a frame and reading it are taken as one step: the       *)
(* order of these steps is the order in which the frames arrive.          *)

\* the exchange's subscriptions after it has served a request
Served(req) ==
    IF req.method = "subscribeTicker" THEN xsubs \cup {req.symbol}
    ELSE IF req.method = "unsubscribeTicker" THEN xsubs \ {req.symbol}
    ELSE xsubs

\* the result payload the exchange computes for a request: every request
\* gets a payload of its own, so that a payload names the request it answers
ResultFor(req) == [kind |-> "result", of |-> req.id]

\* the exchange answers a request with {id, result}; the frame arrives
XReply(req) ==
    /\ req \in wire
    /\ wire' = wire \ {req}
    /\ xsubs' = Served(req)
    /\ xlog' = DictPut(xlog, req.id, "result")
    /\ RecvHandler([id |-> req.id, result |-> ResultFor(req)])

\* the exchange answers a request with {id, error}; the frame arrives
XError(req, code) ==
    /\ req \in wire
    /\ wire' = wire \ {req}
    /\ xlog' = DictPut(xlog, req.id, "error")
    /\ RecvHandler([id |-> req.id, error |-> [code |-> code]])
    /\ UNCHANGED xsubs

\* the exchange never answers a request (a dead feed)
XLose(req) ==
    /\ req \in wire
    /\ wire' = wire \ {req}
    /\ xlog' = DictPut(xlog, req.id, "lost")
    /\ invoked' = NoDispatch
    /\ UNCHANGED <<xsubs, clientVars, callerVars, issued, taken>>

\* the exchange pushes a ticker notification for a symbol it serves; the
\* frame arrives
XNotify(symbol, time, last) ==
    /\ symbol \in xsubs
    /\ RecvHandler([method |-> "ticker",
                    params |-> [symbol |-> symbol, time |-> time,
                                last |-> last]])
    /\ UNCHANGED <<wire, xsubs, xlog>>

\* ExchangeClient.__aexit__, at the end of the ``async with`` block: the
\* receive task is cancelled and the connection closed; nothing is done
\* about self.replies or about the tasks inside check_replies
Aexit ==
    /\ recv = "running"
    /\ recv' = "closed"
    /\ invoked' = NoDispatch
    /\ UNCHANGED <<clientVars, callerVars, netVars, issued, taken, appVars,
                   strict, paintVars, setupVars, toolVars>>

(* --------------------------- specification ----------------------------- *)

\* the client under any use of its calls, made inside the ``async with``
\* block that __aexit__ ends; the ticker program is not running, and a run
\* issues MaxRequests requests at most
Next ==
    \/ \E c \in Callers, s \in Symbols :
          /\ rqids <= MaxRequests /\ recv = "running"
          /\ SubscribeTicker(c, s) /\ UNCHANGED <<appVars, offVars>>
    \/ \E c \in Callers, s \in Symbols :
          /\ rqids <= MaxRequests /\ recv = "running"
          /\ UnsubscribeTicker(c, s) /\ UNCHANGED <<appVars, offVars>>
    \/ \E c \in Callers :
          /\ rqids <= MaxRequests /\ recv = "running"
          /\ GetSymbols(c) /\ UNCHANGED <<appVars, offVars>>
    \/ \E c \in Callers : CheckReplies(c) /\ UNCHANGED <<appVars, offVars>>
    \/ \E req \in wire : XReply(req) /\ UNCHANGED <<appVars, offVars>>
    \/ \E req \in wire, code \in ErrorCodes :
          XError(req, code) /\ UNCHANGED <<appVars, offVars>>
    \/ \E req \in wire : XLose(req) /\ UNCHANGED <<appVars, offVars>>
    \/ \E s \in Symbols, a \in TickVals, b \in TickVals :
          XNotify(s, a, b) /\ UNCHANGED <<appVars, offVars>>
    \/ Aexit

Spec == Init /\ [][Next]_vars

(* ------------------------------ the claims ----------------------------- *)

\* the id of the request a task holds: the one it awaits, or the one its
\* last call went through check_replies with (0: none)
HeldId(c) ==
    IF pc[c] = "await" THEN call[c].rqid
    ELSE IF "reply" \in DOMAIN ret[c] THEN ret[c].rqid
    ELSE 0

\* C1: when the reply frame for a request's id has arrived, check_replies
\* returns exactly the result that frame carried, and from then on
\* self.replies holds no entry for that id.
C1_ReplyReturnedSlotFreed ==
    \A c \in Callers :
        "reply" \in DOMAIN ret[c] =>
            /\ ret[c].rqid \in DOMAIN xlog
            /\ xlog[ret[c].rqid] = "result"
            /\ ret[c].reply = ResultFor([id |-> ret[c].rqid])
            /\ ret[c].rqid \notin DOMAIN replies

\* C1 witness: a call has come back through check_replies with a reply
C1_Witness ==
    \E c \in Callers : "reply" \in DOMAIN ret[c] /\ ret[c].kind = "exited"

\* C4: with several requests in flight, whatever the order in which the
\* replies arrive, a task gets the result of the request with its own id, no
\* id is consumed more than once, and no two tasks hold the same id.
C4_EachTaskItsOwnReply ==
    /\ \A c \in Callers :
          "reply" \in DOMAIN ret[c] =>
              /\ ret[c].reply.kind = "result"
              /\ ret[c].reply.of = ret[c].rqid
    /\ \A id \in DOMAIN taken : taken[id] <= 1
    /\ \A c1, c2 \in Callers :
          (c1 # c2 /\ HeldId(c1) # 0) => HeldId(c1) # HeldId(c2)

\* C4 witness: two requests were in flight together and the later one was
\* answered and consumed first, while the earlier one is still unanswered
C4_Witness ==
    \E c1, c2 \in Callers :
        /\ "reply" \in DOMAIN ret[c1]
        /\ pc[c2] = "await"
        /\ call[c2].rqid < ret[c1].rqid
        /\ call[c2].rqid \notin DOMAIN xlog

\* C5: the ids prep_request returns over the life of a client are strictly
\* increasing, hence pairwise distinct.
C5_IdsStrictlyIncrease ==
    \A i, j \in DOMAIN issued : i < j => issued[i] < issued[j]

\* C5 witness: the client has issued every id its bound allows
C5_Witness == Len(issued) >= 2 /\ rqids > MaxRequests

\* the handlers of a chain
Handlers(chain) == {chain[i] : i \in DOMAIN chain}

\* chain holds exactly the handlers of reg, by strictly ascending priority
RankedBy(chain, reg) ==
    /\ Handlers(chain) = DOMAIN reg
    /\ Len(chain) = Cardinality(DOMAIN reg)
    /\ \A i, j \in DOMAIN chain : i < j => reg[chain[i]] < reg[chain[j]]

C7_ResponseHandlerFirst ==
    /\ "consume_response" \in DOMAIN _consumers
    /\ {h \in DOMAIN _consumers : _consumers[h] = ResponsePriority}
           = {"consume_response"}
    /\ consumers # <<>>
    /\ consumers[1] = "consume_response"

\* C7 witness: a dispatch has just retired the ticker handler, and
\* consume_response is what is left
C7_Witness ==
    /\ invoked.chain = <<"consume_response", "consume_ticker_notes">>
    /\ consumers = <<"consume_response">>

\* C8: the ticker handler is in the chain whenever the subscription set is
\* not empty, and a dispatch that runs it while the set is empty takes it
\* out of the chain.
C8_TickerHandlerRegistered ==
    /\ ticker_subscriptions # {} =>
           "consume_ticker_notes" \in Handlers(consumers)
    /\ (/\ ticker_subscriptions = {}
        /\ \E i \in DOMAIN invoked.ran :
              invoked.ran[i][1] = "consume_ticker_notes")
       => /\ "consume_ticker_notes" \notin Handlers(consumers)
          /\ "consume_ticker_notes" \notin DOMAIN _consumers

\* C8 witness: the set is empty after an unsubscribe, and the dispatch of
\* the next frame ran the ticker handler, which is gone
C8_Witness ==
    /\ ticker_subscriptions = {}
    /\ \E c \in Callers : ret[c].kind = "exited"
    /\ invoked.ran = <<<<"consume_response", FALSE>>,
                       <<"consume_ticker_notes", FALSE>>>>
    /\ "consume_ticker_notes" \notin Handlers(consumers)

\* C9: subscribe_ticker on a subscribed symbol and unsubscribe_ticker on an
\* unsubscribed one transmit nothing and leave the subscription set, the
\* consumer chain, the replies table and the id counter as they were.
C9_NoOpCallsChangeNothing ==
    [][\A c \in Callers, s \in Symbols :
          (\/ SubscribeTicker(c, s) /\ s \in ticker_subscriptions
           \/ UnsubscribeTicker(c, s) /\ s \notin ticker_subscriptions)
          => /\ UNCHANGED <<ticker_subscriptions, _consumers, consumers,
                            replies, rqids, wire>>
             /\ pc'[c] = "idle"
             /\ ret'[c].kind = "None"]_vars

\* C9 witness: both kinds of call have returned None, one of them while
\* requests of other calls were in flight
C9_Witness ==
    \E c1, c2 \in Callers :
        /\ ret[c1] = [kind |-> "None", op |-> "subscribe_ticker"]
        /\ ret[c2] = [kind |-> "None", op |-> "unsubscribe_ticker"]
        /\ rqids > FirstRqid

\* a task leaves check_replies in this step
Returns(c) == pc[c] = "await" /\ pc'[c] = "idle"

\* C10: a subscribe_ticker(s) that sent a request returns only once the
\* reply to that request is in, and then s is in the subscription set and
\* the ticker handler is registered; an unsubscribe_ticker(s) that sent a
\* request returns only once its reply is in, and then s is not in the set.
C10_ReturnsInTheStateItAskedFor ==
    [][\A c \in Callers :
          Returns(c) =>
              /\ call[c].rqid \in DOMAIN xlog
              /\ xlog[call[c].rqid] = "result"
              /\ call[c].op = "subscribe_ticker" =>
                    /\ call[c].sym \in ticker_subscriptions'
                    /\ "consume_ticker_notes" \in Handlers(consumers')
              /\ call[c].op = "unsubscribe_ticker" =>
                    call[c].sym \notin ticker_subscriptions']_vars

\* C2: a task that awaits the reply to a request the exchange has answered
\* with an error frame stops waiting (and fails with the error).
C2_ErrorFrameEndsTheWait ==
    \A c \in Callers :
        (/\ pc[c] = "await"
         /\ call[c].rqid \in DOMAIN xlog
         /\ xlog[call[c].rqid] = "error")
        => ENABLED CheckReplies(c)

\* C3: a task in check_replies whose reply never arrives does not wait for
\* ever: it can leave check_replies (with Timeout).
C3_AwaitAlwaysEnds ==
    \A c \in Callers :
        (/\ pc[c] = "await"
         /\ call[c].rqid \in DOMAIN xlog
         /\ xlog[call[c].rqid] = "lost")
        => ENABLED CheckReplies(c)

\* the cache holds a timestamp for s that is not null
LiveTimestamp(tk, s) ==
    /\ s \in DOMAIN tk
    /\ "time" \in DOMAIN tk[s]
    /\ tk[s].time # NullTime

\* C11: in every reachable state a symbol whose cache entry has a non-null
\* timestamp is a member of the subscription set.
C11_LiveEntryIsSubscribed ==
    \A s \in Symbols :
        LiveTimestamp(ticker, s) => s \in ticker_subscriptions

\* the entry a notification makes when nothing of an earlier one is kept
Snapshot(time, last) == MergedEntry(<<>>, [time |-> time, last |-> last])

\* C12: once consume_ticker_notes has processed a notification for s, the
\* cache entry of s is built from that notification alone: no field of an
\* earlier notification survives, whatever the new one omits or leaves zero.
C12_EntryIsFreshSnapshot ==
    [][\A s \in Symbols, a \in TickVals, b \in TickVals :
          (/\ XNotify(s, a, b)
           /\ ticker_subscriptions # {}
           /\ "consume_ticker_notes" \in Handlers(consumers))
          => ticker'[s] = Snapshot(a, b)]_vars

(* ------------------- the ticker program: the watchdog ------------------- *)

\* do_run_ticker: all_subs, in the order cycle(all_subs) goes through it
all_subs == <<"ETHBTC", "BCHBTC">>

\* ``diff = (datetime.utcnow() - client.make_date(ts_str)).seconds``
Diff(seconds) == seconds % SecondsPerDay

\* a watchdog that never finds the ratio exceeded
NeverExceeds(stale) == FALSE

\* ``len(stale_subs) / len(all_subs) > max_stale``
ExceedsMaxStale(stale) ==
    Cardinality(stale) * MaxStaleDen > MaxStaleNum * Len(all_subs)

\* cycle(all_subs): the position after i
NextCursor(i) == IF i = Len(all_subs) THEN 1 ELSE i + 1

\* _check_timestamps from one wake to its next sleep, its break or its
\* exception: the for loop from position i, after n symbols in a row were
\* passed over with ``continue`` (a null timestamp skips the sleep as well;
\* when every timestamp is null the loop never reaches an await)
RECURSIVE CheckTimestamps(_, _, _, _)
CheckTimestamps(i, n, stale, tk) ==
    LET sym == all_subs[i]
    IN  IF n = Len(all_subs)
        THEN [outcome |-> "spins", sym |-> sym, cursor |-> i,
              stale |-> stale, ticker |-> tk]
        ELSE IF sym \notin DOMAIN tk \/ "time" \notin DOMAIN tk[sym]
        THEN [outcome |-> "raises", sym |-> sym, cursor |-> i,
              stale |-> stale, ticker |-> tk]
        ELSE IF tk[sym].time = NullTime
        THEN CheckTimestamps(NextCursor(i), n + 1, stale, tk)
        ELSE IF Diff(age[sym]) > STALE_SECS
        THEN IF strict /\ ExceedsMaxStale(stale \cup {sym})
             THEN [outcome |-> "kills", sym |-> sym, cursor |-> i,
                   stale |-> stale \cup {sym}, ticker |-> tk]
             ELSE [outcome |-> "sleeps", sym |-> sym,
                   cursor |-> NextCursor(i), stale |-> stale \cup {sym},
                   ticker |-> [tk EXCEPT ![sym].time = NullTime]]
        ELSE [outcome |-> "sleeps", sym |-> sym, cursor |-> NextCursor(i),
              stale |-> stale \ {sym}, ticker |-> tk]

\* rt_sig_cb: ``for task in tasks: task.cancel()``; a suspended task is
\* woken with CancelledError at its await, a finished one is left alone
Cancel(tk) ==
    [t \in Tasks |-> IF tk[t] = "pending" THEN "cancelling" ELSE tk[t]]

\* rt_sig_cb: ``out_futs.update(kwargs)`` after setdefault("msg", ...)
RtSigCb(futs, by) ==
    IF by = "watchdog"
    THEN DictPut(DictPut(futs, "error", [kind |-> "text", by |-> by]),
                 "msg", [kind |-> "text", by |-> by])
    ELSE DictPut(futs, "msg", [kind |-> "text", by |-> by])

\* a watchdog that goes on checking after the kill
GoesOnAfterKill == "pending"

\* the watchdog after kill_handler(...): ``break``, and the task, on which
\* rt_sig_cb called cancel() while it ran, ends with CancelledError
AfterKill == "cancelled"

\* callbacks of the event loop run in the order they were queued: the
\* wake-ups of the tasks rt_sig_cb cancelled are queued by rt_sig_cb, ahead
\* of every callback that comes of a task finishing afterwards
WakeupsPending == \E t \in Tasks : task[t] = "cancelling"

\* the watchdog is in a loop that never awaits: it keeps the thread of the
\* event loop, and no other callback, task or signal handler runs
Blocked == \E t \in Tasks : task[t] = "spinning"

\* do_run_ticker is inside its task group or its teardown, and the event
\* loop runs its callbacks
Running == phase \in {"gathered", "unsubscribing"} /\ ~Blocked

\* the locals of _check_timestamps end with the coroutine, and nothing
\* reads the clock any more
WatchdogGone ==
    /\ stale_subs' = {}
    /\ cursor' = 1
    /\ timer' = 0
    /\ age' = [s \in Symbols |-> 0]

\* the watchdog wakes from its sleep and checks
WatchdogCheck ==
    /\ Running
    /\ task["ts_chk"] = "pending"
    /\ timer = 0
    /\ LET r == CheckTimestamps(cursor, 0, stale_subs, ticker)
       IN  /\ ticker' = r.ticker
           /\ IF r.outcome = "kills"
              THEN /\ task' = [Cancel(task) EXCEPT !["ts_chk"] = AfterKill]
                   /\ kills' = kills + 1
                   /\ out_futs' = RtSigCb(out_futs, "watchdog")
                   /\ sig_armed' = FALSE
              ELSE /\ task' = [task EXCEPT !["ts_chk"] =
                                 IF r.outcome = "raises" THEN "raised"
                                 ELSE IF r.outcome = "spins" THEN "spinning"
                                 ELSE @]
                   /\ UNCHANGED <<kills, out_futs, sig_armed>>
           /\ IF task'["ts_chk"] \in {"pending", "spinning"}
              THEN /\ stale_subs' = r.stale
                   /\ cursor' = r.cursor
                   /\ timer' = IF r.outcome = "sleeps" THEN POLL_INTERVAL
                               ELSE timer
                   /\ UNCHANGED age
              ELSE WatchdogGone
    /\ invoked' = NoDispatch
    /\ UNCHANGED <<rqids, replies, symbols, ticker_subscriptions, _consumers,
                   consumers, callerVars, netVars, issued, taken, phase,
                   logfile, torn>>

\* the watchdog is woken by a cancel(): CancelledError at its sleep, break
WatchdogCancelled ==
    /\ Running
    /\ task["ts_chk"] = "cancelling"
    /\ task' = [task EXCEPT !["ts_chk"] = "returned"]
    /\ WatchdogGone
    /\ invoked' = NoDispatch
    /\ UNCHANGED <<clientVars, callerVars, netVars, issued, taken, phase,
                   out_futs, sig_armed, logfile, kills, torn>>

\* time passes; it is followed while the watchdog is there to read it, and
\* an age above STALE_SECS, which reads like any greater one, is not
\* counted further
Tick ==
    /\ Running
    /\ task["ts_chk"] = "pending"
    /\ timer' = IF timer > TickSecs THEN timer - TickSecs ELSE 0
    /\ age' = [s \in Symbols |->
                 IF age[s] > STALE_SECS THEN age[s] ELSE age[s] + TickSecs]
    /\ invoked' = NoDispatch
    /\ UNCHANGED <<clientVars, callerVars, netVars, issued, taken, phase,
                   task, stale_subs, cursor, out_futs, sig_armed, logfile,
                   kills, torn>>

(* ------------- the ticker program: task group and teardown -------------- *)

\* the exceptions do_send raises in the teardown
SendErrors == {"ConnectionClosed", "OSError"}

\* the teardown gather maps unsubscribe_ticker over all_subs: a child task
\* per symbol
SymbolOf == [c \in Callers |-> IF c = "t1" THEN all_subs[1] ELSE all_subs[2]]

\* what is left untouched by a step of the task group
groupRest == <<clientVars, callerVars, netVars, issued, taken, phase,
               stale_subs, cursor, timer, age, out_futs, sig_armed, logfile,
               kills, torn>>

\* _paint_ticker_line raises (a KeyError of _convert_volume, a division by
\* an ``open`` of zero, a write error): nothing in its loop catches it
RowRaises(r) ==
    /\ Running
    /\ task[r] = "pending"
    /\ task' = [task EXCEPT ![r] = "raised"]
    /\ invoked' = NoDispatch
    /\ UNCHANGED groupRest

\* _paint_ticker_line is woken by a cancel(): CancelledError at its sleep
\* or at its semaphore, break, return
RowCancelled(r) ==
    /\ Running
    /\ task[r] = "cancelling"
    /\ task' = [task EXCEPT ![r] = "returned"]
    /\ invoked' = NoDispatch
    /\ UNCHANGED groupRest

\* SIGINT while the task group runs: the loop calls rt_sig_cb()
Sigint ==
    /\ phase = "gathered"
    /\ ~Blocked
    /\ sig_armed
    /\ task' = Cancel(task)
    /\ out_futs' = RtSigCb(out_futs, "SIGINT")
    /\ sig_armed' = FALSE
    /\ invoked' = NoDispatch
    /\ UNCHANGED <<clientVars, callerVars, netVars, issued, taken, phase,
                   stale_subs, cursor, timer, age, logfile, kills, torn>>

\* asyncio.gather(*tasks) without return_exceptions: done with the
\* exception of the first child that fails (the other children are left
\* running), or with the results once every child has returned
GatheredOutcomes(tk) ==
    IF \E t \in Tasks : tk[t] \in {"raised", "cancelled"}
    THEN {IF tk[t] = "cancelled" THEN "CancelledError" ELSE "Error" :
            t \in {u \in Tasks : tk[u] \in {"raised", "cancelled"}}}
    ELSE IF \A t \in Tasks : tk[t] = "returned" THEN {"results"}
    ELSE {}

\* do_run_ticker, ``except Exception as exc`` of the task group: the value
\* it stores under "gathered"
GatheredValue(outcome, log) ==
    IF outcome = "results" THEN [kind |-> "results"]
    ELSE IF ~log /\ outcome # "CancelledError"
    THEN [kind |-> "traceback", exc |-> outcome]
    ELSE [kind |-> "exception", exc |-> outcome]

\* do_run_ticker resumes from ``await gathered`` and enters ``finally``,
\* where it starts the unsubscribe gather (manage_subs is set)
GatheredDone ==
    /\ phase = "gathered"
    /\ ~Blocked
    /\ ~WakeupsPending
    /\ \E outcome \in GatheredOutcomes(task) :
          out_futs' = DictPut(out_futs, "gathered",
                              GatheredValue(outcome, logfile))
    /\ phase' = "unsubscribing"
    /\ torn' = [ran |-> TRUE, failed |-> "none", before |-> out_futs']
    /\ invoked' = NoDispatch
    /\ UNCHANGED <<clientVars, callerVars, netVars, issued, taken, task,
                   stale_subs, cursor, timer, age, sig_armed, logfile, kills>>

\* a child of the unsubscribe gather has not been started
ChildNotStarted(c) == pc[c] = "idle" /\ ret[c] = Unset

\* a child of the unsubscribe gather calls unsubscribe_ticker
TeardownUnsubscribe(c) ==
    /\ phase = "unsubscribing"
    /\ ~Blocked
    /\ ~WakeupsPending
    /\ ChildNotStarted(c)
    /\ UnsubscribeTicker(c, SymbolOf[c])
    /\ UNCHANGED appVars

\* a child of the unsubscribe gather calls unsubscribe_ticker and do_send
\* raises (prep_request has taken its id by then)
TeardownSendRaises(c, exc) ==
    /\ phase = "unsubscribing"
    /\ ~Blocked
    /\ ~WakeupsPending
    /\ ChildNotStarted(c)
    /\ ~AlreadyUnsubscribed(SymbolOf[c], ticker_subscriptions)
    /\ rqids' = PrepRequestNext(rqids)
    /\ issued' = Append(issued, PrepRequestId(rqids))
    /\ ret' = [ret EXCEPT ![c] = [kind |-> "raised", exc |-> exc]]
    /\ invoked' = NoDispatch
    /\ UNCHANGED <<replies, ticker, symbols, ticker_subscriptions, _consumers,
                   consumers, pc, call, netVars, taken, appVars>>

\* a child of the unsubscribe gather leaves check_replies
TeardownCheckReplies(c) ==
    /\ phase = "unsubscribing"
    /\ ~Blocked
    /\ CheckReplies(c)
    /\ UNCHANGED appVars

\* the unsubscribe gather: done with the exception of the first child that
\* raises, or with the results once every child has returned
UnsubsOutcomes ==
    IF \E c \in Callers : ret[c].kind = "raised"
    THEN {ret[c].exc : c \in {d \in Callers : ret[d].kind = "raised"}}
    ELSE IF \A c \in Callers : pc[c] = "idle" /\ ret[c] # Unset
    THEN {"results"}
    ELSE {}

\* a teardown that files its own failure as the failure of the run
MasksReason(futs, outcome, log) ==
    DictPut(futs, "gathered", [kind |-> "exception", exc |-> outcome])

\* do_run_ticker, ``try: out_futs["subs"] = await gunsubs`` and its
\* ``except Exception``: out_futs afterwards
RecordsUnsubs(futs, outcome, log) ==
    IF outcome = "results" THEN DictPut(futs, "subs", [kind |-> "results"])
    ELSE IF log
    THEN DictPut(futs, "subs", [kind |-> "exception", exc |-> outcome])
    ELSE IF outcome # "ConnectionClosed"
    THEN DictPut(futs, "subs", [kind |-> "traceback", exc |-> outcome])
    ELSE futs

\* do_run_ticker resumes from ``await gunsubs``, restores the signal
\* handler and returns out_futs
TeardownDone ==
    /\ phase = "unsubscribing"
    /\ ~Blocked
    /\ \E outcome \in UnsubsOutcomes :
          /\ out_futs' = RecordsUnsubs(out_futs, outcome, logfile)
          /\ torn' = [torn EXCEPT !.failed =
                        IF outcome = "results" THEN "none" ELSE outcome]
    /\ phase' = "returned"
    /\ sig_armed' = FALSE
    /\ invoked' = NoDispatch
    /\ UNCHANGED <<clientVars, callerVars, netVars, issued, taken, task,
                   stale_subs, cursor, timer, age, logfile, kills>>

\* consume_ticker_notes stores the timestamp of this notification (and the
\* watchdog is there to read the clock)
StoresTimestamp(time) ==
    /\ time # 0
    /\ task["ts_chk"] = "pending"
    /\ ticker_subscriptions # {}
    /\ "consume_ticker_notes" \in Handlers(consumers)

\* the exchange pushes a ticker notification; its timestamp, when it has
\* one, is the present time
TNotify(symbol, time) ==
    /\ Running
    /\ XNotify(symbol, time, 1)
    /\ age' = [age EXCEPT ![symbol] = IF StoresTimestamp(time) THEN 0 ELSE @]
    /\ UNCHANGED <<phase, task, stale_subs, cursor, timer, out_futs,
                   sig_armed, logfile, kills, torn>>

\* the exchange answers a request of the teardown (it may as well never
\* answer: nothing obliges this step to be taken)
TReply(req) == Running /\ XReply(req) /\ UNCHANGED appVars

\* do_run_ticker at ``gathered = asyncio.gather(*tasks)``: get_symbols and
\* the subscriptions of all_subs have been answered (ids 1 to 3), every
\* ranked symbol has a cache entry (the wait loop before), rt_sig_cb is
\* installed and the tasks are created
GroupStarted ==
    /\ rqids = FirstRqid + 3
    /\ replies = <<>>
    /\ ticker \in [Symbols -> {MergedEntry(<<>>, [time |-> a, last |-> 1]) :
                                 a \in TickVals}]
    /\ symbols = SymbolsFrom(None)
    /\ ticker_subscriptions = Symbols
    /\ _consumers = AddConsumerReg([h \in {"consume_response"} |->
                                      ResponsePriority],
                                   "consume_ticker_notes", TickerPriority,
                                   FALSE)
    /\ consumers = RankedConsumers(_consumers)
    /\ pc = [c \in Callers |-> "idle"]
    /\ call = [c \in Callers |-> NoCall]
    /\ ret = [c \in Callers |-> Unset]
    /\ wire = {}
    /\ xsubs = Symbols
    /\ xlog = [i \in 1..3 |-> "result"]
    /\ issued = <<1, 2, 3>>
    /\ taken = [i \in 1..3 |-> 1]
    /\ invoked = NoDispatch
    /\ phase = "gathered"
    /\ task = [t \in Tasks |-> "pending"]
    /\ stale_subs = {}
    /\ cursor = 1
    /\ timer = 0
    /\ age = [s \in Symbols |-> 0]
    /\ out_futs = <<>>
    /\ sig_armed = TRUE
    /\ logfile \in BOOLEAN
    /\ kills = 0
    /\ torn = NoTeardown
    /\ recv = "running"
    /\ NoRows
    /\ NoSetup
    /\ NoTools

\* the ticker program as main_entry starts it by default
TickerInit == GroupStarted /\ strict = STRICT_TIME

TickerNext ==
    \/ WatchdogCheck /\ UNCHANGED offVars
    \/ WatchdogCancelled /\ UNCHANGED offVars
    \/ Tick /\ UNCHANGED offVars
    \/ \E r \in Rows : RowRaises(r) /\ UNCHANGED offVars
    \/ \E r \in Rows : RowCancelled(r) /\ UNCHANGED offVars
    \/ Sigint /\ UNCHANGED offVars
    \/ GatheredDone /\ UNCHANGED offVars
    \/ \E c \in Callers : TeardownUnsubscribe(c) /\ UNCHANGED offVars
    \/ \E c \in Callers, exc \in SendErrors :
          TeardownSendRaises(c, exc) /\ UNCHANGED offVars
    \/ \E c \in Callers : TeardownCheckReplies(c) /\ UNCHANGED offVars
    \/ TeardownDone /\ UNCHANGED offVars
    \/ \E s \in Symbols, a \in TickVals : TNotify(s, a) /\ UNCHANGED offVars
    \/ \E req \in wire : TReply(req) /\ UNCHANGED offVars

TickerSpec == TickerInit /\ [][TickerNext]_vars

\* the event loop runs every callback that is ready and time goes on; the
\* exchange owes nothing
FairTickerSpec ==
    /\ TickerSpec
    /\ WF_vars(WatchdogCheck /\ UNCHANGED offVars)
    /\ WF_vars(WatchdogCancelled /\ UNCHANGED offVars)
    /\ WF_vars(Tick /\ UNCHANGED offVars)
    /\ WF_vars(\E r \in Rows : RowCancelled(r) /\ UNCHANGED offVars)
    /\ WF_vars(GatheredDone /\ UNCHANGED offVars)
    /\ WF_vars(\E c \in Callers :
                 TeardownUnsubscribe(c) /\ UNCHANGED offVars)
    /\ WF_vars(\E c \in Callers :
                 TeardownCheckReplies(c) /\ UNCHANGED offVars)
    /\ WF_vars(TeardownDone /\ UNCHANGED offVars)

(* ------------- the ticker program when the receive loop ends ------------- *)

\* recv_handler ends while do_run_ticker runs: the ``async for`` over the
\* websocket raises (transport error), ends (connection closed), or a
\* consumer raises; only CancelledError is caught.  active_recv_Task is
\* done, and nothing awaits it or has a callback on it
RecvDies ==
    /\ Running
    /\ recv = "running"
    /\ recv' = "died"
    /\ invoked' = NoDispatch
    /\ UNCHANGED <<clientVars, callerVars, netVars, issued, taken, appVars,
                   strict, paintVars, setupVars, toolVars>>

\* STRICT_TIME is read from the environment: either setting
EngineInit == GroupStarted /\ strict \in BOOLEAN

EngineNext == TickerNext \/ RecvDies

\* the ticker program with a receive loop that can end, under either
\* strictness setting
EngineSpec == EngineInit /\ [][EngineNext]_vars

\* the event loop runs every callback that is ready and time goes on
FairEngineSpec ==
    /\ EngineSpec
    /\ WF_vars(WatchdogCheck /\ UNCHANGED offVars)
    /\ WF_vars(WatchdogCancelled /\ UNCHANGED offVars)
    /\ WF_vars(Tick /\ UNCHANGED offVars)
    /\ WF_vars(\E r \in Rows : RowCancelled(r) /\ UNCHANGED offVars)
    /\ WF_vars(GatheredDone /\ UNCHANGED offVars)
    /\ WF_vars(\E c \in Callers :
                 TeardownUnsubscribe(c) /\ UNCHANGED offVars)
    /\ WF_vars(\E c \in Callers :
                 TeardownCheckReplies(c) /\ UNCHANGED offVars)
    /\ WF_vars(TeardownDone /\ UNCHANGED offVars)

(* ------------------- the ticker program: the row tasks ------------------ *)

\* the symbol of a row: ``for lnum, sym in enumerate(ranked)``
RowSymbol == [r \in Rows |-> IF r = "row1" THEN all_subs[1] ELSE all_subs[2]]

Abs(x) == IF x < 0 THEN -x ELSE x

\* ``latest[key].quantize(tick)``: rounded to the exponent of tick, half to
\* even
Quantize(x, unit) ==
    LET q == x \div unit
        r == x % unit
    IN  IF 2 * r > unit \/ (2 * r = unit /\ q % 2 = 1)
        THEN (q + 1) * unit
        ELSE q * unit

\* ``change = (latest["last"] - latest["open"]) / latest["open"]``, kept as
\* numerator and denominator (open is positive)
Change(entry) == <<entry.last - entry.open, entry.open>>

\* ``a - b > 0`` for two such quotients
Greater(a, b) == a[1] * b[2] > b[1] * a[2]

\* ``if _pulse_over > pulse_over: _pulse_over -= Dec(1)``, at the top of
\* the loop
StepDown(po) == IF po > PULSE_OVER THEN po - PulseStep ELSE po

\* a threshold read as a fraction, not as a percentage
ExceedsFraction(new, old, po) ==
    Abs(Abs(new) - Abs(old)) * (PerCent \div 100) > Abs(po * old)

\* ``abs(abs(latest["last"]) - abs(last_seen["last"])) >
\*   abs(_pulse_over / 100 * last_seen["last"])``
ExceedsPulseOver(new, old, po) ==
    Abs(Abs(new) - Abs(old)) * PerCent > Abs(po * old)

\* ``latest = decimate(dict(client.ticker[sym]))`` and the quantize loop
\* (of the keys quantized, "last" is in the model)
Latest(entry) ==
    [time |-> entry.time, last |-> Quantize(entry.last, tick),
     open |-> entry.open]

\* ``snapshots.get(sym) and snapshots[sym] == latest``
SameSnapshot(snaps, sym, lt) == sym \in DOMAIN snaps /\ snaps[sym] = lt

\* a flash frame that leaves the flag as it is
KeepsPulse(p) == p

\* the flash frame: ``pulse = None``
ResetPulse(p) == "none"

\* a print that would await while it holds the semaphore
PrintAwaits == TRUE

\* the body of ``with await semaphore`` is one print(..., flush=True): it
\* does not await
PrintSuspends == FALSE

\* the kind of frame a row is about to print, and the threshold its
\* iteration started from
Kind(kind, r) == [kind |-> kind, over |-> _pulse_over[r]]

\* what is left untouched by a step of a row
rowRest == <<rqids, replies, symbols, ticker_subscriptions, _consumers,
             consumers, callerVars, netVars, issued, taken, phase,
             stale_subs, cursor, timer, age, out_futs, sig_armed, logfile,
             kills, torn, engineVars, quantize, setupVars,
             toolVars>>

\* a row wakes from its sleep and runs down to ``with await semaphore``, to
\* the ``continue`` of a repeated snapshot, or to an exception
RowIterate(r) ==
    /\ phase = "gathered"
    /\ task[r] = "pending"
    /\ pcr[r] = "sleep"
    /\ cpu = "none"
    /\ LET sym == RowSymbol[r]
           po == StepDown(_pulse_over[r])
           lt == Latest(ticker[sym])
           change == Change(lt)
           \* ``latest["chg"] = change``
           shown == lt @@ [chg |-> change]
           \* ``last_seen = snapshots.setdefault(sym, latest)``
           last_seen == IF sym \in DOMAIN snapshots THEN snapshots[sym]
                        ELSE shown
       IN  /\ _pulse_over' = [_pulse_over EXCEPT ![r] = po]
           /\ IF pulse[r] # "none"
              THEN \* ``latest = last_seen``, the flash colours, pulse = None
                   /\ latest' = [latest EXCEPT ![r] =
                                   snapshots[sym] @@ Kind("flash", r)]
                   /\ pulse' = [pulse EXCEPT ![r] = ResetPulse(@)]
                   /\ pcr' = [pcr EXCEPT ![r] = "gate"]
                   /\ cpu' = r
                   /\ UNCHANGED <<snapshots, task>>
              ELSE IF quantize = "absent"
              THEN \* ``client.quantize``: AttributeError
                   /\ task' = [task EXCEPT ![r] = "raised"]
                   /\ UNCHANGED <<latest, pulse, pcr, cpu, snapshots>>
              ELSE IF SameSnapshot(snapshots, sym, lt)
              THEN \* ``continue``
                   UNCHANGED <<latest, pulse, pcr, cpu, snapshots, task>>
              ELSE /\ snapshots' = IF sym \in DOMAIN snapshots THEN snapshots
                                   ELSE DictPut(snapshots, sym, shown)
                   /\ IF lt.time = NullTime
                      THEN /\ latest' = [latest EXCEPT ![r] =
                                           shown @@ Kind("stale", r)]
                           /\ pulse' = [pulse EXCEPT ![r] = "none"]
                      ELSE IF ExceedsPulseOver(lt.last, last_seen.last, po)
                      THEN /\ latest' = [latest EXCEPT ![r] =
                                           shown @@ Kind("pulse", r)]
                           /\ pulse' = [pulse EXCEPT ![r] =
                                          IF Greater(change, last_seen.chg)
                                          THEN "+" ELSE "-"]
                      ELSE /\ latest' = [latest EXCEPT ![r] =
                                           shown @@ Kind("normal", r)]
                           /\ UNCHANGED pulse
                   /\ pcr' = [pcr EXCEPT ![r] = "gate"]
                   /\ cpu' = r
                   /\ UNCHANGED task
    /\ invoked' = NoDispatch
    /\ UNCHANGED <<rowRest, ticker, semaphore, frame>>

\* ``with await semaphore``: Semaphore.acquire takes the semaphore without
\* suspending when its value is positive, and suspends otherwise
RowEnterGate(r) ==
    /\ pcr[r] = "gate"
    /\ cpu \in {r, "none"}
    /\ IF semaphore > 0
       THEN /\ semaphore' = semaphore - 1
            /\ pcr' = [pcr EXCEPT ![r] = "write"]
            /\ cpu' = IF PrintSuspends THEN "none" ELSE r
       ELSE /\ pcr' = [pcr EXCEPT ![r] = "wait"]
            /\ cpu' = "none"
            /\ UNCHANGED semaphore
    /\ invoked' = NoDispatch
    /\ UNCHANGED <<rowRest, ticker, task, snapshots, pulse, _pulse_over,
                   latest, frame>>

\* the print, the release of the semaphore at the end of the with block
\* (which wakes the rows waiting for it), ``last_seen.update(latest)``, and
\* on to the next sleep
RowWrite(r) ==
    /\ pcr[r] = "write"
    /\ cpu = (IF PrintSuspends THEN "none" ELSE r)
    /\ frame' = [frame EXCEPT ![r] = latest[r].kind]
    /\ semaphore' = semaphore + 1
    /\ snapshots' = [snapshots EXCEPT ![RowSymbol[r]] =
                       [k \in DOMAIN @ |-> latest[r][k]]]
    /\ latest' = [latest EXCEPT ![r] = <<>>]
    /\ pcr' = [q \in Rows |-> IF q = r THEN "sleep"
                              ELSE IF pcr[q] = "wait" THEN "gate"
                              ELSE pcr[q]]
    /\ cpu' = "none"
    /\ invoked' = NoDispatch
    /\ UNCHANGED <<rowRest, ticker, task, pulse, _pulse_over>>

\* the receive task stores a notification for a symbol while the rows sleep
PaintNotify(sym, last, open) ==
    /\ phase = "gathered"
    /\ cpu = "none"
    /\ ticker' = [ticker EXCEPT ![sym] =
                    [time |-> 1, last |-> last, open |-> open]]
    /\ invoked' = NoDispatch
    /\ UNCHANGED <<rowRest, task, semaphore, snapshots, pulse, _pulse_over,
                   latest, frame, pcr, cpu>>

\* the watchdog marks a symbol as stale while the rows sleep
PaintMarkStale(sym) ==
    /\ phase = "gathered"
    /\ cpu = "none"
    /\ ticker[sym].time # NullTime
    /\ ticker' = [ticker EXCEPT ![sym].time = NullTime]
    /\ invoked' = NoDispatch
    /\ UNCHANGED <<rowRest, task, semaphore, snapshots, pulse, _pulse_over,
                   latest, frame, pcr, cpu>>

\* the last prices and session-open prices of the notifications, in 1/1000:
\* 100, 100.054 (0.05 percent above 100 once quantized), 100.2 and 110
Prices == {100000, 100054, 100200, 110000}
Opens == {100000, 110000}
\* the second row's symbol is quiet: one price
QuietPrice == 100000

\* do_run_ticker at ``gathered = asyncio.gather(*tasks)``, with the rows
\* followed: a client that has the quantize attribute (Binance) or has not
\* (HitBTC)
PaintInit ==
    /\ rqids = FirstRqid + 3
    /\ replies = <<>>
    /\ ticker = [s \in Symbols |->
                   [time |-> 1, last |-> QuietPrice, open |-> QuietPrice]]
    /\ symbols = SymbolsFrom(None)
    /\ ticker_subscriptions = Symbols
    /\ _consumers = AddConsumerReg([h \in {"consume_response"} |->
                                      ResponsePriority],
                                   "consume_ticker_notes", TickerPriority,
                                   FALSE)
    /\ consumers = RankedConsumers(_consumers)
    /\ pc = [c \in Callers |-> "idle"]
    /\ call = [c \in Callers |-> NoCall]
    /\ ret = [c \in Callers |-> Unset]
    /\ wire = {}
    /\ xsubs = Symbols
    /\ xlog = [i \in 1..3 |-> "result"]
    /\ issued = <<1, 2, 3>>
    /\ taken = [i \in 1..3 |-> 1]
    /\ invoked = NoDispatch
    /\ phase = "gathered"
    /\ task = [t \in Tasks |-> "pending"]
    /\ stale_subs = {}
    /\ cursor = 1
    /\ timer = 0
    /\ age = [s \in Symbols |-> 0]
    /\ out_futs = <<>>
    /\ sig_armed = TRUE
    /\ logfile = FALSE
    /\ kills = 0
    /\ torn = NoTeardown
    /\ recv = "running"
    /\ strict = STRICT_TIME
    /\ quantize \in {"absent", "True"}
    /\ semaphore = SemaphoreValue
    /\ snapshots = <<>>
    /\ pulse = [r \in Rows |-> "none"]
    /\ _pulse_over = [r \in Rows |-> PULSE_OVER + pulse_delay]
    /\ latest = [r \in Rows |-> <<>>]
    /\ frame = [r \in Rows |-> "none"]
    /\ pcr = [r \in Rows |-> "sleep"]
    /\ cpu = "none"
    /\ NoSetup
    /\ NoTools


PaintNext ==
    \/ \E r \in Rows : RowIterate(r)
    \/ \E r \in Rows : RowEnterGate(r)
    \/ \E r \in Rows : RowWrite(r)
    \/ \E last \in Prices, open \in Opens :
          PaintNotify(all_subs[1], last, open)
    \/ PaintNotify(all_subs[2], QuietPrice, QuietPrice)
    \/ \E s \in Symbols : PaintMarkStale(s)

\* the row tasks of a running ticker
PaintSpec == PaintInit /\ [][PaintNext]_vars

(* --------------------- the ticker program: its setup -------------------- *)

\* what is left untouched when do_run_ticker itself takes a step of setup
setupRest == <<clientVars, pc, call, netVars, issued, taken, stale_subs,
               cursor, timer, age, sig_armed, logfile, kills, torn,
               engineVars, paintVars, columns, toolVars>>

\* a step of a child task or of the exchange leaves do_run_ticker alone
setupIdle == <<appVars, engineVars, paintVars, setupVars, toolVars>>

\* a child of ``gather(*map(client.subscribe_ticker, all_subs))``
SetupSubscribe(c) ==
    /\ phase = "subscribing"
    /\ ChildNotStarted(c)
    /\ SubscribeTicker(c, SymbolOf[c])
    /\ UNCHANGED setupIdle

\* a child of the subscribe gather whose do_send raises: the symbol is in
\* the set and the handler registered by then, and the id is taken
SetupSendRaises(c, exc) ==
    /\ phase = "subscribing"
    /\ ChildNotStarted(c)
    /\ ~AlreadySubscribed(SymbolOf[c], ticker_subscriptions)
    /\ rqids' = PrepRequestNext(rqids)
    /\ issued' = Append(issued, PrepRequestId(rqids))
    /\ ticker_subscriptions' = ticker_subscriptions \cup {SymbolOf[c]}
    /\ _consumers' = AddConsumerReg(_consumers, "consume_ticker_notes",
                                    TickerPriority, FALSE)
    /\ consumers' = AddConsumerChain(_consumers, consumers,
                                     "consume_ticker_notes", TickerPriority,
                                     FALSE)
    /\ ret' = [ret EXCEPT ![c] = [kind |-> "raised", exc |-> exc]]
    /\ invoked' = NoDispatch
    /\ UNCHANGED <<replies, ticker, symbols, pc, call, netVars, taken,
                   setupIdle>>

\* a child of a setup gather leaves check_replies
SetupCheckReplies(c) ==
    /\ phase \in {"subscribing", "bailing"}
    /\ CheckReplies(c)
    /\ UNCHANGED setupIdle

\* the exchange during setup: it answers a request, refuses one with an
\* error frame, or pushes a notification for a symbol it serves
SReply(req) ==
    /\ phase \in {"subscribing", "polling", "bailing"}
    /\ XReply(req)
    /\ UNCHANGED setupIdle

SError(req, code) ==
    /\ phase \in {"subscribing", "polling", "bailing"}
    /\ XError(req, code)
    /\ UNCHANGED setupIdle

SNotify(symbol, time) ==
    /\ phase \in {"subscribing", "polling", "bailing"}
    /\ XNotify(symbol, time, 1)
    /\ UNCHANGED setupIdle

\* the children of a new gather: none has been started
NewChildren == [c \in Callers |-> Unset]

\* ``await asyncio.gather(*map(client.subscribe_ticker, all_subs))`` is
\* done: with the exception of a child, which leaves do_run_ticker, or with
\* the results
SubscribedAll ==
    /\ phase = "subscribing"
    /\ \E outcome \in UnsubsOutcomes :
          IF outcome = "results"
          THEN phase' = "polling" /\ UNCHANGED out_futs
          ELSE /\ phase' = "raised"
               /\ out_futs' = DictPut(out_futs, "raised",
                                      [kind |-> "exception", exc |-> outcome,
                                       by |-> "subscribe"])
    /\ max_tries' = MaxTries
    /\ invoked' = NoDispatch
    /\ UNCHANGED <<setupRest, ret, task, heading>>

\* ``ranked`` in the model: every symbol of all_subs is displayed, or the
\* first alone, the second being a conversion pair that the volume of no
\* displayed symbol is converted with
RankedChoices == {{all_subs[1], all_subs[2]}, {all_subs[1]}}

\* ``all(s in clt and s in cls for s in ranked)`` (client.symbols has every
\* ranked symbol: choose_pairs canonicalized them)
AllPresent(tk) == \A s \in ranked_syms : s \in DOMAIN tk

\* the wait loop: a check that fails, ``await asyncio.sleep(1)``,
\* ``max_tries -= 1``
PollSleep ==
    /\ phase = "polling"
    /\ max_tries > 0
    /\ ~AllPresent(ticker)
    /\ max_tries' = max_tries - 1
    /\ invoked' = NoDispatch
    /\ UNCHANGED <<setupRest, ret, task, heading, phase, out_futs>>

\* the wait loop has run out (its else clause): do_run_ticker starts to
\* unsubscribe all_subs ("why" is the branch it is in, which decides what
\* follows the await)
PollGiveUp ==
    /\ phase = "polling"
    /\ max_tries = 0
    /\ phase' = "bailing"
    /\ out_futs' = DictPut(out_futs, "why", "subscribing")
    /\ ret' = NewChildren
    /\ invoked' = NoDispatch
    /\ UNCHANGED <<setupRest, task, heading, max_tries>>

\* ``sum(widths) > os.get_terminal_size().columns``
TooNarrow(cols) == NeededColumns > cols

\* the wait loop breaks (or is not needed), and do_run_ticker runs without
\* an await through the widths to the width check: it sets the error and
\* starts to unsubscribe, or prints the heading, creates the tasks and
\* awaits the task group
Layout ==
    /\ phase = "polling"
    /\ max_tries > 0
    /\ AllPresent(ticker)
    /\ IF TooNarrow(columns)
       THEN /\ out_futs' = DictPut(DictPut(out_futs, "error",
                                           [kind |-> "text", by |-> "width"]),
                                   "why", "width")
            /\ phase' = "bailing"
            /\ ret' = NewChildren
            /\ UNCHANGED <<task, heading>>
       ELSE /\ heading' = TRUE
            /\ task' = [t \in Tasks |->
                          IF t \in Rows /\ RowSymbol[t] \notin ranked_syms
                          THEN "none" ELSE "pending"]
            /\ phase' = "gathered"
            /\ ret' = NewChildren
            /\ UNCHANGED out_futs
    /\ invoked' = NoDispatch
    /\ UNCHANGED <<setupRest, max_tries>>

\* a child of ``gather(*map(client.unsubscribe_ticker, all_subs))`` of an
\* early return
BailUnsubscribe(c) ==
    /\ phase = "bailing"
    /\ ChildNotStarted(c)
    /\ UnsubscribeTicker(c, SymbolOf[c])
    /\ UNCHANGED setupIdle

\* a child of that gather whose do_send raises
BailSendRaises(c, exc) ==
    /\ phase = "bailing"
    /\ ChildNotStarted(c)
    /\ ~AlreadyUnsubscribed(SymbolOf[c], ticker_subscriptions)
    /\ rqids' = PrepRequestNext(rqids)
    /\ issued' = Append(issued, PrepRequestId(rqids))
    /\ ret' = [ret EXCEPT ![c] = [kind |-> "raised", exc |-> exc]]
    /\ invoked' = NoDispatch
    /\ UNCHANGED <<replies, ticker, symbols, ticker_subscriptions, _consumers,
                   consumers, pc, call, netVars, taken, setupIdle>>

\* ``out_futs["subs"] = await asyncio.gather(...)`` of an early return is
\* done: with the results, and do_run_ticker returns out_futs (the error
\* of the wait loop is set after the await), or with the exception of a
\* child, which nothing catches here
BailDone ==
    /\ phase = "bailing"
    /\ \E outcome \in UnsubsOutcomes :
          IF outcome = "results"
          THEN /\ phase' = "returned"
               /\ out_futs' =
                    LET futs == DictPut(out_futs, "subs", [kind |-> "results"])
                    IN  IF out_futs["why"] = "subscribing"
                        THEN DictPut(futs, "error",
                                     [kind |-> "text", by |-> "subscribing"])
                        ELSE futs
          ELSE /\ phase' = "raised"
               /\ out_futs' = DictPut(out_futs, "raised",
                                      [kind |-> "exception", exc |-> outcome,
                                       by |-> "unsubscribe"])
    /\ invoked' = NoDispatch
    /\ UNCHANGED <<setupRest, ret, task, heading, max_tries>>

\* SIGINT while rt_sig_cb is installed and do_run_ticker has not created
\* its tasks (or has returned early): the loop calls rt_sig_cb(), which
\* updates out_futs and then raises NameError at ``tasks``, a variable of
\* do_run_ticker that has no value; the loop logs the exception and goes
\* on, nothing is cancelled and the handler stays installed
SetupSigint ==
    /\ phase \in {"subscribing", "polling", "bailing", "returned"}
    /\ sig_armed
    /\ out_futs' = RtSigCb(out_futs, "SIGINT")
    /\ invoked' = NoDispatch
    /\ UNCHANGED <<setupRest, ret, task, heading, max_tries, phase>>

\* do_run_ticker(ranked, client, loop) is called with manage_subs on a
\* client that has its symbols (choose_pairs: request 1) and has subscribed
\* to nothing; no task of the group exists
SetupInit ==
    /\ rqids = FirstRqid + 1
    /\ replies = <<>>
    /\ ticker = <<>>
    /\ symbols = SymbolsFrom(None)
    /\ ticker_subscriptions = {}
    /\ _consumers = [h \in {"consume_response"} |-> ResponsePriority]
    /\ consumers = <<"consume_response">>
    /\ pc = [c \in Callers |-> "idle"]
    /\ call = [c \in Callers |-> NoCall]
    /\ ret = NewChildren
    /\ wire = {}
    /\ xsubs = {}
    /\ xlog = [i \in 1..1 |-> "result"]
    /\ issued = <<1>>
    /\ taken = [i \in 1..1 |-> 1]
    /\ invoked = NoDispatch
    /\ phase = "subscribing"
    /\ task = [t \in Tasks |-> "none"]
    /\ stale_subs = {}
    /\ cursor = 1
    /\ timer = 0
    /\ age = [s \in Symbols |-> 0]
    /\ out_futs = <<>>
    /\ sig_armed = TRUE
    /\ logfile = FALSE
    /\ kills = 0
    /\ torn = NoTeardown
    /\ recv = "running"
    /\ strict = STRICT_TIME
    /\ NoRows
    /\ max_tries = MaxTries
    /\ columns \in Columns
    /\ heading = FALSE
    /\ pair = <<>>
    /\ canon = [kind |-> "none"]
    /\ NoVolumeUnit
    /\ ranked_syms \in RankedChoices
    /\ NoJudgement
    /\ Constructed

SetupNext ==
    \/ \E c \in Callers : SetupSubscribe(c)
    \/ \E c \in Callers, exc \in SendErrors : SetupSendRaises(c, exc)
    \/ \E c \in Callers : SetupCheckReplies(c)
    \/ \E req \in wire : SReply(req)
    \/ \E req \in wire, code \in ErrorCodes : SError(req, code)
    \/ \E s \in Symbols, a \in TickVals : SNotify(s, a)
    \/ SubscribedAll
    \/ PollSleep
    \/ PollGiveUp
    \/ Layout
    \/ \E c \in Callers : BailUnsubscribe(c)
    \/ \E c \in Callers, exc \in SendErrors : BailSendRaises(c, exc)
    \/ BailDone
    \/ SetupSigint

\* do_run_ticker from its call to the start of its task group, or to an
\* early end
SetupSpec == SetupInit /\ [][SetupNext]_vars

(* ------------------------- canonicalize_pair --------------------------- *)

\* the characters of the model: a string is the sequence of its characters
UpperCase == {"B", "D", "E", "S", "T", "U"}
LowerCase == {"b", "d", "e", "s", "t", "u"}
Separators == {"_", "/", " "}

\* str.upper() and str.lower() on one character
upper ==
    [c \in UpperCase \cup LowerCase \cup Separators |->
        CASE c = "b" -> "B" [] c = "d" -> "D" [] c = "e" -> "E"
          [] c = "s" -> "S" [] c = "t" -> "T" [] c = "u" -> "U"
          [] OTHER -> c]

lower ==
    [c \in UpperCase \cup LowerCase \cup Separators |->
        CASE c = "B" -> "b" [] c = "D" -> "d" [] c = "E" -> "e"
          [] c = "S" -> "s" [] c = "T" -> "t" [] c = "U" -> "u"
          [] OTHER -> c]

\* an upper() that leaves the string as it is
UpperKeeps(s) == s

\* str.upper() on a string
Upper(s) == [i \in DOMAIN s |-> upper[s[i]]]

\* c.isalnum() on one character
CharIsAlnum(c) == c \in UpperCase \cup LowerCase

CharIsSep(c) == ~CharIsAlnum(c)

\* str.isalnum(): false on the empty string
IsAlnum(s) == s # <<>> /\ \A i \in DOMAIN s : CharIsAlnum(s[i])

\* ``[c for c in pair if not c.isalnum()]``
NonAlnum(s) == SelectSeq(s, CharIsSep)

\* pair.replace(sep, ""), for a sep of one character
RECURSIVE Replace(_, _)
Replace(s, sep) ==
    IF s = <<>> THEN <<>>
    ELSE IF Head(s) = sep THEN Replace(Tail(s), sep)
    ELSE <<Head(s)>> \o Replace(Tail(s), sep)

\* pair.endswith(suffix)
EndsWith(s, suffix) ==
    /\ Len(s) >= Len(suffix)
    /\ SubSeq(s, Len(s) - Len(suffix) + 1, Len(s)) = suffix

USD == <<"U", "S", "D">>
T == <<"T">>

\* the keys of client.symbols in the model: base E quoted in B, base E
\* quoted in USDT (and no EUSD), base B quoted in USD
EB == <<"E", "B">>
EUSDT == <<"E", "U", "S", "D", "T">>
BUSD == <<"B", "U", "S", "D">>
SymbolKeys == {EB, EUSDT, BUSD}

\* canonicalize_pair(pair), as_tuple false, on a client that has its
\* symbols: what the call comes to
CanonicalizePair(p, syms) ==
    IF p \in syms THEN [kind |-> "returned", value |-> p]
    ELSE IF ~IsAlnum(p) /\ NonAlnum(p) = <<>>
    THEN [kind |-> "raised", exc |-> "IndexError"]
    ELSE LET bare == IF IsAlnum(p) THEN p
                     ELSE Replace(p, NonAlnum(p)[Len(NonAlnum(p))])
             up == Upper(bare)
         IN  IF up \in syms THEN [kind |-> "returned", value |-> up]
             ELSE IF EndsWith(up, USD) /\ (up \o T) \in syms
             THEN [kind |-> "returned", value |-> up \o T]
             ELSE [kind |-> "raised", exc |-> "ValueError"]

\* the spellings of a word: each letter in either case
Spellings(w) ==
    {[i \in DOMAIN w |-> IF i \in low THEN lower[w[i]] ELSE w[i]] :
        low \in SUBSET DOMAIN w}

\* s with the separator c put before its i-th character
WithSeparator(s, i, c) == SubSeq(s, 1, i - 1) \o <<c>> \o SubSeq(s, i, Len(s))

\* the notations of a word: concatenated, or with one separator between
\* two of its letters, in any letter case
Notations(w) ==
    Spellings(w) \cup
    {WithSeparator(s, i, c) : s \in Spellings(w), i \in 2..Len(w),
                              c \in Separators}

\* words that are no symbol: one that the USD fallback turns into a symbol,
\* and three that nothing does
EUSD == <<"E", "U", "S", "D">>
Strangers == {<<"B", "E">>, <<"E", "U", "S">>, <<"B", "U", "S", "D", "T">>}

\* the arguments of the model
Pairs ==
    UNION {Notations(w) : w \in SymbolKeys \cup {EUSD} \cup Strangers}
      \cup {<<>>}

\* a call of canonicalize_pair
Canonicalize ==
    /\ canon = [kind |-> "none"]
    /\ canon' = CanonicalizePair(pair, SymbolKeys)
    /\ UNCHANGED <<clientVars, callerVars, netVars, histVars, appVars,
                   engineVars, paintVars, setupVars, pair, convVars,
                   clockVars, binVars>>

\* a client that has its symbols, before do_run_ticker is called: what
\* choose_pairs and do_run_ticker's own preparations start from
SymbolsLoaded ==
    /\ rqids = FirstRqid + 1
    /\ replies = <<>>
    /\ ticker = <<>>
    /\ symbols = SymbolsFrom(None)
    /\ ticker_subscriptions = {}
    /\ _consumers = [h \in {"consume_response"} |-> ResponsePriority]
    /\ consumers = <<"consume_response">>
    /\ pc = [c \in Callers |-> "idle"]
    /\ call = [c \in Callers |-> NoCall]
    /\ ret = [c \in Callers |-> Unset]
    /\ wire = {}
    /\ xsubs = {}
    /\ xlog = [i \in 1..1 |-> "result"]
    /\ issued = <<1>>
    /\ taken = [i \in 1..1 |-> 1]
    /\ invoked = NoDispatch
    /\ phase = "off"
    /\ task = [t \in Tasks |-> "none"]
    /\ stale_subs = {}
    /\ cursor = 1
    /\ timer = 0
    /\ age = [s \in Symbols |-> 0]
    /\ out_futs = <<>>
    /\ sig_armed = FALSE
    /\ logfile = FALSE
    /\ kills = 0
    /\ torn = NoTeardown
    /\ recv = "running"
    /\ strict = STRICT_TIME
    /\ NoRows
    /\ NoSetup

CanonInit ==
    /\ SymbolsLoaded
    /\ pair \in Pairs
    /\ canon = [kind |-> "none"]
    /\ NoConversion
    /\ NoJudgement
    /\ Constructed

CanonNext == Canonicalize

\* main, choose_pairs: canonicalize_pair on each argument of the command
\* line
CanonSpec == CanonInit /\ [][CanonNext]_vars

(* -------------------------- volume conversion -------------------------- *)

\* currencies, as strings
CurB == <<"B">>
CurE == <<"E">>
CurS == <<"S">>
USDT == USD \o T

\* a symbol record of client.symbols
Sym(base, quote) == [curB |-> base, curQ |-> quote]

\* a table of symbols from the pairs it lists
Table(pairs) ==
    [k \in {p[1] \o p[2] : p \in pairs} |->
        LET p == CHOOSE q \in pairs : q[1] \o q[2] = k
        IN  Sym(p[1], p[2])]

\* the exchanges of the model: one that quotes in B, E and USD, one that
\* quotes in B and USDT; S is a currency that quotes nothing
QuotesUSD ==
    Table({<<CurE, CurB>>, <<CurB, USD>>, <<CurE, USD>>, <<CurS, CurB>>,
           <<CurS, CurE>>})
QuotesUSDT ==
    Table({<<CurE, CurB>>, <<CurB, USDT>>, <<CurE, USDT>>, <<CurS, CurB>>})
Listings == {QuotesUSD, QuotesUSDT}

\* the values of VOL_UNIT of the model (<<>> is null)
VolUnits == {<<>>, CurB, CurE, CurS, USD, USDT}

\* get_symbols: ``self.markets = {v["curQ"] for v in self.symbols.values()}``
Markets(lst) == {lst[k].curQ : k \in DOMAIN lst}

\* get_market_conversion_pairs: self.conversions
Conversions(lst) ==
    {m[1] \o m[2] : m \in {n \in Markets(lst) \X Markets(lst) : n[1] # n[2]}}
        \cap DOMAIN lst

\* ``sub in s`` on strings
Contains(s, sub) ==
    \E i \in 1..(Len(s) - Len(sub) + 1) : SubSeq(s, i, i + Len(sub) - 1) = sub

\* get_market_conversion_pairs(quote), quote not null
GetMarketConversionPairs(lst, quote) ==
    IF Contains(quote, USD)
    THEN {p \in Conversions(lst) : EndsWith(p, USD) \/ EndsWith(p, USDT)}
    ELSE {p \in Conversions(lst) : EndsWith(p, quote)}

\* do_run_ticker, manage_subs true: whether it goes on with VOL_UNIT as
\* it is
Accepted(lst, unit) ==
    unit = <<>> \/ Contains(unit, USD) \/ unit \in Markets(lst)

\* do_run_ticker: VOL_UNIT after ``globals()["VOL_UNIT"] = "USDT"``
Settled_VOL_UNIT(lst, unit) ==
    IF unit = USD /\ USD \notin Markets(lst) THEN USDT ELSE unit

\* do_run_ticker from ``all_subs = set(ranked)`` to the end of its
\* ``if VOL_UNIT`` block
PrepareSubs ==
    /\ chosen_subs = [kind |-> "none"]
    /\ IF ~Accepted(listing, vol_unit)
       THEN /\ chosen_subs' = [kind |-> "error"]
            /\ UNCHANGED vol_unit
       ELSE /\ vol_unit' = Settled_VOL_UNIT(listing, vol_unit)
            /\ chosen_subs' =
                 [kind |-> "set",
                  all_subs |->
                    IF vol_unit = <<>> THEN ranked_syms
                    ELSE ranked_syms \cup GetMarketConversionPairs(listing,
                                                             vol_unit')]
    /\ UNCHANGED <<clientVars, callerVars, netVars, histVars, appVars,
                   engineVars, paintVars, setupVars, pair, canon, listing,
                   ranked_syms, conv_read, clockVars, binVars>>

\* _convert_volume(client, sym, base, quote, tickdict): the key of
\* client.ticker it reads for the rate, or none when the volume is in the
\* target unit as it is
ConvertVolumeReads(lst, sym, quote, target) ==
    IF EndsWith(sym, target) \/ (target = USD /\ EndsWith(sym, USDT))
    THEN [kind |-> "volQ", sym |-> sym]
    ELSE IF (quote \o target) \in Conversions(lst)
    THEN [kind |-> "rate", sym |-> sym, key |-> quote \o target]
    ELSE [kind |-> "rate", sym |-> sym, key |-> target \o quote]

\* a call of _convert_volume for a displayed symbol (``if VOL_UNIT``)
ConvertVolume(s) ==
    /\ chosen_subs.kind = "set"
    /\ vol_unit # <<>>
    /\ s \in ranked_syms
    /\ conv_read' = ConvertVolumeReads(listing, s, listing[s].curQ, vol_unit)
    /\ UNCHANGED <<clientVars, callerVars, netVars, histVars, appVars,
                   engineVars, paintVars, setupVars, pair, canon, listing,
                   vol_unit, ranked_syms, chosen_subs, clockVars, binVars>>

\* the sets of displayed symbols of the model: one symbol or two
Shown(lst) == {ss \in SUBSET DOMAIN lst : Cardinality(ss) \in {1, 2}}

ConvInit ==
    /\ SymbolsLoaded
    /\ pair = <<>>
    /\ canon = [kind |-> "none"]
    /\ listing \in Listings
    /\ vol_unit \in VolUnits
    /\ ranked_syms \in Shown(listing)
    /\ chosen_subs = [kind |-> "none"]
    /\ conv_read = [kind |-> "none"]
    /\ NoJudgement
    /\ Constructed

ConvNext ==
    \/ PrepareSubs
    \/ \E s \in DOMAIN listing : ConvertVolume(s)

\* do_run_ticker's choice of subscriptions, and the volume conversions of
\* its rows
ConvSpec == ConvInit /\ [][ConvNext]_vars

(* ----------------------- the watchdog and the clock --------------------- *)

\* the elapsed times of the model: around zero and around each whole day
ElapsedTimes ==
    {d * SecondsPerDay + k : d \in 0..MaxDays, k \in (0 - MaxSkew)..MaxSkew}

\* _check_timestamps on one non-null timestamp: ``diff > stale_secs``
JudgedStale(seconds) == Diff(seconds) > STALE_SECS

\* the watchdog looks at a non-null timestamp: it marks it (sets it to
\* null or kills, and counts it in stale_subs), or takes it for fresh
JudgeTimestamp ==
    /\ judged = "none"
    /\ judged' = IF JudgedStale(elapsed) THEN "stale" ELSE "fresh"
    /\ UNCHANGED <<clientVars, callerVars, netVars, histVars, appVars,
                   engineVars, paintVars, setupVars, pair, canon, convVars,
                   elapsed, binVars>>

ClockInit ==
    /\ SymbolsLoaded
    /\ pair = <<>>
    /\ canon = [kind |-> "none"]
    /\ NoConversion
    /\ elapsed \in ElapsedTimes
    /\ judged = "none"
    /\ Constructed

ClockNext == JudgeTimestamp

\* _check_timestamps on timestamps of any age
ClockSpec == ClockInit /\ [][ClockNext]_vars

(* --------------------------- the Binance client ------------------------- *)

\* the streams of a symbol: ``"%s@ticker"`` and ``"%s@aggTrade"``
StreamsOf(s) == {<<s, "ticker">>, <<s, "aggTrade">>}

\* what a step of the Binance client leaves alone
binRest == <<rqids, replies, symbols, _consumers, consumers, netVars,
             histVars, appVars, engineVars, paintVars, setupVars, pair,
             canon, convVars, clockVars>>

\* _reload from the test of its settle loop to its next suspension or its
\* return, for the task c that holds the lock: the loop sleeps once more,
\* or ends and _reload returns for want of streams, or builds the url and
\* awaits the connection
SettleLoop(c, strms, sett) ==
    IF strms # sett
    THEN [lock |-> c, settled |-> strms, url |-> url, at |-> "settle"]
    ELSE IF strms = {}
    THEN [lock |-> "none", settled |-> sett, url |-> url, at |-> "over"]
    ELSE [lock |-> c, settled |-> sett, url |-> strms, at |-> "connecting"]

\* _reload from its call to its first suspension or its return: it returns
\* at once when the lock is held; else it takes the lock (acquire does not
\* suspend on a free lock) and, when there is a connection, cancels
\* active_recv_Task and awaits the end of the connection
ReloadEnter(c, strms) ==
    IF lock # "none"
    THEN [lock |-> lock, settled |-> settled, url |-> url, at |-> "over",
          conn |-> conn]
    ELSE IF conn.recv # "none"
    THEN [lock |-> c, settled |-> {}, url |-> url, at |-> "closing",
          conn |-> [conn EXCEPT !.recv = IF @ = "running" THEN "cancelled"
                                         ELSE @]]
    ELSE SettleLoop(c, strms, {}) @@ [conn |-> conn]

\* the caller of _reload after the step r of it: suspended inside it, or
\* past it (subscribe_ticker then awaits its two polls, unsubscribe_ticker
\* returns)
Proceeds(c, op, s, r) ==
    /\ lock' = r.lock
    /\ settled' = r.settled
    /\ url' = r.url
    /\ IF r.at # "over"
       THEN /\ pc' = [pc EXCEPT ![c] = r.at]
            /\ call' = [call EXCEPT ![c] = [op |-> op, sym |-> s, rqid |-> 0]]
            /\ ret' = [ret EXCEPT ![c] = Unset]
       ELSE IF op = "subscribe_ticker"
       THEN /\ pc' = [pc EXCEPT ![c] = "poll"]
            /\ call' = [call EXCEPT ![c] = [op |-> op, sym |-> s, rqid |-> 0]]
            /\ ret' = [ret EXCEPT ![c] = Unset]
       ELSE /\ pc' = [pc EXCEPT ![c] = "idle"]
            /\ call' = [call EXCEPT ![c] = NoCall]
            /\ ret' = [ret EXCEPT ![c] = [kind |-> "returned", op |-> op]]

\* BinanceClient.subscribe_ticker(symbol) up to its first suspension
BinSubscribe(c, s) ==
    /\ pc[c] = "idle"
    /\ IF s \in ticker_subscriptions
       THEN /\ ret' = [ret EXCEPT ![c] = [kind |-> "None",
                                         op |-> "subscribe_ticker"]]
            /\ UNCHANGED <<ticker_subscriptions, pc, call, binVars>>
       ELSE /\ ticker_subscriptions' = ticker_subscriptions \cup {s}
            /\ streams' = streams \cup StreamsOf(s)
            /\ LET r == ReloadEnter(c, streams')
               IN  conn' = r.conn /\ Proceeds(c, "subscribe_ticker", s, r)
    /\ UNCHANGED <<binRest, ticker>>

\* BinanceClient.unsubscribe_ticker(symbol) up to its first suspension
BinUnsubscribe(c, s) ==
    /\ pc[c] = "idle"
    /\ IF s \notin ticker_subscriptions
       THEN /\ ret' = [ret EXCEPT ![c] = [kind |-> "None",
                                         op |-> "unsubscribe_ticker"]]
            /\ UNCHANGED <<ticker_subscriptions, pc, call, binVars>>
       ELSE /\ ticker_subscriptions' = ticker_subscriptions \ {s}
            /\ streams' = streams \ StreamsOf(s)
            /\ LET r == ReloadEnter(c, streams')
               IN  conn' = r.conn /\ Proceeds(c, "unsubscribe_ticker", s, r)
    /\ UNCHANGED <<binRest, ticker>>

\* _reload: ``await self.__aexit__(None, None, None)`` is over, and the
\* settle loop starts from ``settled = set()``
BinClosed(c) ==
    /\ pc[c] = "closing"
    /\ Proceeds(c, call[c].op, call[c].sym, SettleLoop(c, streams, {}))
    /\ UNCHANGED <<binRest, ticker, ticker_subscriptions, streams, conn>>

\* _reload: the sleep of the settle loop is over
BinSettle(c) ==
    /\ pc[c] = "settle"
    /\ Proceeds(c, call[c].op, call[c].sym, SettleLoop(c, streams, settled))
    /\ UNCHANGED <<binRest, ticker, ticker_subscriptions, streams, conn>>

\* _reload: ``await super().__aenter__(url)`` is over: the websocket
\* carries the streams of the url, a new active_recv_Task reads it, and the
\* lock is released
BinConnected(c) ==
    /\ pc[c] = "connecting"
    /\ conn' = [streams |-> url, recv |-> "running"]
    /\ Proceeds(c, call[c].op, call[c].sym,
                [lock |-> "none", settled |-> settled, url |-> url,
                 at |-> "over"])
    /\ UNCHANGED <<binRest, ticker, ticker_subscriptions, streams>>

\* the keys a frame of a stream stores (of those that do_poll waits for)
FrameKeys(kind) == IF kind = "ticker" THEN {"chgP", "time"}
                   ELSE {"last", "time"}

\* the keys of the cache entry of s
EntryKeys(tk, s) == IF s \in DOMAIN tk THEN DOMAIN tk[s] ELSE {}

\* subscribe_ticker: ``await asyncio.wait((start_trade, start_ticker))`` is
\* over, both polls have found their key
BinPollDone(c) ==
    /\ pc[c] = "poll"
    /\ {"last", "chgP"} \subseteq EntryKeys(ticker, call[c].sym)
    /\ pc' = [pc EXCEPT ![c] = "idle"]
    /\ call' = [call EXCEPT ![c] = NoCall]
    /\ ret' = [ret EXCEPT ![c] = [kind |-> "returned",
                                  op |-> "subscribe_ticker"]]
    /\ UNCHANGED <<binRest, ticker, ticker_subscriptions, binVars>>

\* BinanceClient.consume_response: whether its assertion on the symbol
\* holds
AssertSubscribed(s, subscribed) == s \in subscribed

\* recv_handler takes a frame of a stream of the live websocket and runs
\* consume_response on it: nothing when no symbol is subscribed, an
\* AssertionError that ends active_recv_Task when the symbol is not
\* subscribed, else the cache entry is updated
BinFrame(st) ==
    /\ conn.recv = "running"
    /\ st \in conn.streams
    /\ IF ticker_subscriptions = {}
       THEN UNCHANGED <<ticker, conn>>
       ELSE IF ~AssertSubscribed(st[1], ticker_subscriptions)
       THEN conn' = [conn EXCEPT !.recv = "died"] /\ UNCHANGED ticker
       ELSE /\ ticker' =
                 DictPut(ticker, st[1],
                         [k \in EntryKeys(ticker, st[1]) \cup FrameKeys(st[2])
                            |-> 1])
            /\ UNCHANGED conn
    /\ UNCHANGED <<binRest, ticker_subscriptions, callerVars, streams, lock,
                   settled, url>>

BinInit ==
    /\ SymbolsLoaded
    /\ pair = <<>>
    /\ canon = [kind |-> "none"]
    /\ NoConversion
    /\ NoJudgement
    /\ Constructed

BinNext ==
    \/ \E c \in Callers, s \in Symbols : BinSubscribe(c, s)
    \/ \E c \in Callers, s \in Symbols : BinUnsubscribe(c, s)
    \/ \E c \in Callers : BinClosed(c)
    \/ \E c \in Callers : BinSettle(c)
    \/ \E c \in Callers : BinConnected(c)
    \/ \E c \in Callers : BinPollDone(c)
    \/ \E s \in Symbols, k \in {"ticker", "aggTrade"} : BinFrame(<<s, k>>)

\* the Binance client under any use of subscribe_ticker and
\* unsubscribe_ticker by two tasks
BinSpec == BinInit /\ [][BinNext]_vars

(* ----------------- the claims on the ticker program --------------------- *)

\* the symbol the watchdog judges when it wakes in this state
Visited == CheckTimestamps(cursor, 0, stale_subs, ticker).sym

\* C13: whenever the watchdog finds the non-null timestamp of a subscribed
\* symbol older than stale_secs it sets that timestamp to null, also on the
\* check on which it invokes the kill callback.
C13_StaleTimestampGetsNulled ==
    [][\A s \in Symbols :
          (/\ WatchdogCheck
           /\ Visited = s
           /\ LiveTimestamp(ticker, s)
           /\ Diff(age[s]) > STALE_SECS)
          => ticker'[s].time = NullTime]_vars

\* the watchdog has set the timestamp of s to null
NulledTimestamp(tk, s) ==
    s \in DOMAIN tk /\ "time" \in DOMAIN tk[s] /\ tk[s].time = NullTime

\* C14: the next notification that consume_ticker_notes processes for a
\* symbol whose timestamp the watchdog has set to null makes the timestamp
\* non-null again, whatever fields the notification carries.
C14_NotificationRevivesTimestamp ==
    [][\A s \in Symbols, a \in TickVals :
          (/\ TNotify(s, a)
           /\ NulledTimestamp(ticker, s)
           /\ ticker_subscriptions # {}
           /\ "consume_ticker_notes" \in Handlers(consumers))
          => ~NulledTimestamp(ticker', s)]_vars

\* more than max_stale of the subscribed symbols have had no timestamped
\* notification for longer than stale_secs
SilentMajority ==
    \E S \in SUBSET Symbols :
        /\ \A s \in S : age[s] > STALE_SECS
        /\ Cardinality(S) * MaxStaleDen > MaxStaleNum * Len(all_subs)

\* the watchdog has ended without a kill: it was cancelled, or it raised
WatchdogEnded == task["ts_chk"] \in {"cancelling", "returned", "raised"}

C16_KillAtMostOnce ==
    /\ kills <= 1
    /\ kills > 0 => task["ts_chk"] = "cancelled"

\* C16 witness: do_run_ticker has returned from a run the watchdog killed
C16_Witness == kills = 1 /\ phase = "returned"

\* s is stale right now: its timestamp is null (or missing), or older than
\* stale_secs
ActuallyStale(s) == ~LiveTimestamp(ticker, s) \/ Diff(age[s]) > STALE_SECS

\* C17: the watchdog invokes the kill callback only when the number of
\* subscribed symbols that are stale at that moment, over the number of
\* subscribed symbols, exceeds max_stale.
C17_KillOnlyWhenStaleNow ==
    [][kills' > kills =>
          Cardinality({s \in Symbols : ActuallyStale(s)}) * MaxStaleDen
              > MaxStaleNum * Len(all_subs)]_vars

\* a task of the group has terminated
Terminated(t) == task[t] \in {"returned", "raised", "cancelled"}

\* C18: once a child of the teardown has been started (the first
\* unsubscribe request is about to be sent), and when do_run_ticker has
\* returned, every row task and the watchdog have terminated.
C18_TasksOverBeforeTeardown ==
    (\/ phase = "unsubscribing" /\ \E c \in Callers : ~ChildNotStarted(c)
     \/ phase = "returned")
    => \A t \in Tasks : Terminated(t)

\* C19: after a cancellation signal or a watchdog kill do_run_ticker
\* eventually returns, with the subscription set empty, also when the
\* exchange sends nothing any more.
C19_TeardownCompletes ==
    ("msg" \in DOMAIN out_futs)
        ~> (phase = "returned" /\ ticker_subscriptions = {})

\* the teardown left the result as it stood before the unsubscribe step
ReasonKept ==
    /\ "gathered" \in DOMAIN torn.before
    /\ \A k \in DOMAIN torn.before :
          k \in DOMAIN out_futs /\ out_futs[k] = torn.before[k]

\* the failure of the unsubscribe step is on record under "subs"
FailureUnderSubs ==
    /\ "subs" \in DOMAIN out_futs
    /\ out_futs["subs"].kind \in {"exception", "traceback"}
    /\ out_futs["subs"].exc = torn.failed

GroupCancelled == \A t \in Tasks : task[t] # "pending" /\ task[t] # "spinning"

\* C21: when the receive loop ends while row tasks run, every row task and
\* the watchdog are eventually cancelled and the teardown begins, under
\* either strictness setting.
C21_EngineDeathIsFatal ==
    (recv = "died" /\ phase = "gathered"
         /\ \E r \in Rows : task[r] = "pending")
        ~> (GroupCancelled /\ phase \in {"unsubscribing", "returned"})

\* C22: a task that is inside check_replies when __aexit__ has closed the
\* connection, and whose reply has not arrived, stops waiting (and fails
\* with ConnectionLost).
C22_CloseFailsInFlightAwaits ==
    \A c \in Callers :
        (/\ recv = "closed"
         /\ pc[c] = "await"
         /\ ~CheckRepliesReady(replies, call[c].rqid))
        => ENABLED CheckReplies(c)

(* ---------------------- the claims on the row tasks ---------------------- *)

\* the rows inside the with block of the semaphore
Writers == {r \in Rows : pcr[r] = "write"}

\* C23: at most one row task is inside the terminal-write section at a
\* time, and the row that holds the semaphore is the one the event loop is
\* running: the semaphore is never held by a suspended task.
C23_OneWriterNeverSuspended ==
    /\ Cardinality(Writers) <= 1
    /\ \A r \in Writers : cpu = r
    /\ semaphore = SemaphoreValue - Cardinality(Writers)

\* C23 witness: a row is inside the write section while the other row,
\* which has printed before, sleeps
C23_Witness ==
    \E r, q \in Rows :
        /\ r # q
        /\ pcr[r] = "write"
        /\ pcr[q] = "sleep"
        /\ frame[q] # "none"
        /\ task[q] = "pending"

\* the fields of a rendered snapshot that came from the cache
Rendered(snap) == [k \in {"time", "last", "open"} |-> snap[k]]

\* C24: an iteration of a row that is not a flash frame, and that reads
\* from the cache a snapshot equal by value to the one last rendered for the
\* row, prints nothing.
C24_RepeatedSnapshotNotWritten ==
    [][\A r \in Rows :
          (/\ RowIterate(r)
           /\ pulse[r] = "none"
           /\ RowSymbol[r] \in DOMAIN snapshots
           /\ Latest(ticker[RowSymbol[r]]) = Rendered(snapshots[RowSymbol[r]]))
          => pcr'[r] = "sleep"]_vars

\* C25: the iteration that follows one which set the pulse flag prints the
\* flash frame and resets the flag; no iteration sets the flag when it was
\* set already; and the frame after a flash frame is no flash frame.
C25_PulseIsOneShot ==
    [][\A r \in Rows :
          RowIterate(r) =>
              /\ pulse[r] # "none" =>
                    /\ pulse'[r] = "none"
                    /\ pcr'[r] = "gate"
                    /\ latest'[r].kind = "flash"
              /\ pulse'[r] # "none" => pulse[r] = "none"
              /\ (frame[r] = "flash" /\ pcr'[r] = "gate") =>
                    latest'[r].kind # "flash"]_vars

\* C25 witness: a row has printed a flash frame, its flag is reset, and it
\* is about to print the frame after it, in normal colours
C25_Witness ==
    \E r \in Rows :
        /\ frame[r] = "flash"
        /\ pulse[r] = "none"
        /\ pcr[r] = "gate"
        /\ latest[r].kind = "normal"

\* the row r is past its startup grace window: its threshold is pulse_over
Settled(r) == _pulse_over[r] = PULSE_OVER

\* C26: past the grace window, a row that is not stale and not flashing
\* enters pulse state exactly when the last price it reads differs from the
\* last price it rendered by more than pulse_over percent of the latter.
C26_PulseIffMoveExceedsThreshold ==
    [][\A r \in Rows :
          (/\ RowIterate(r)
           /\ quantize = "True"
           /\ Settled(r)
           /\ pulse[r] = "none"
           /\ ticker[RowSymbol[r]].time # NullTime
           /\ RowSymbol[r] \in DOMAIN snapshots)
          => LET new == Latest(ticker[RowSymbol[r]]).last
                 old == snapshots[RowSymbol[r]].last
             IN  pulse'[r] # "none"
                   <=> Abs(new - old) * PerCent > PULSE_OVER * old]_vars

\* C26 witness: past the grace window a row that rendered 100 reads 100.2
\* and is in pulse state
C26_Witness ==
    \E r \in Rows :
        /\ pcr[r] = "gate"
        /\ latest[r].kind = "pulse"
        /\ latest[r].over = PULSE_OVER
        /\ latest[r].last = 100200
        /\ snapshots[RowSymbol[r]].last = 100000
        /\ pulse[r] = "+"

\* C27: when a row enters pulse state, the pulse is positive if the last
\* price rose since the last rendered snapshot and negative if it fell.
C27_PulseSignFollowsPrice ==
    [][\A r \in Rows :
          (/\ RowIterate(r)
           /\ pulse[r] = "none"
           /\ pulse'[r] # "none")
          => LET new == Latest(ticker[RowSymbol[r]]).last
                 old == snapshots[RowSymbol[r]].last
             IN  /\ new > old => pulse'[r] = "+"
                 /\ new < old => pulse'[r] = "-"]_vars

\* C28: during the startup grace window of a row (while its threshold is
\* above pulse_over and is stepped down) the row does not enter pulse state.
C28_NoPulseDuringGrace ==
    [][\A r \in Rows :
          (RowIterate(r) /\ ~Settled(r)) => pulse'[r] = "none"]_vars

\* do_run_ticker is over: it has returned or raised
SetupOver == phase \in {"returned", "raised"}

\* do_run_ticker has taken the branch of the width check
WidthBranch == "why" \in DOMAIN out_futs /\ out_futs["why"] = "width"

\* C29: on a terminal narrower than the rows, do_run_ticker starts no row
\* task and no watchdog and prints no heading, and it ends by returning the
\* insufficient-width error with every symbol unsubscribed.
C29_NarrowTerminalFailsFast ==
    TooNarrow(columns) =>
        /\ \A t \in Tasks : task[t] = "none"
        /\ ~heading
        /\ (SetupOver /\ WidthBranch) =>
               /\ phase = "returned"
               /\ "error" \in DOMAIN out_futs
               /\ out_futs["error"].by = "width"
               /\ ticker_subscriptions = {}

\* a symbol of the run for which data has arrived
HasData(s) == s \in DOMAIN ticker

\* C30: a symbol for which no data arrives during setup is excluded alone:
\* do_run_ticker gives the run up only when no symbol has data.
C30_OneFailedSymbolExcludedAlone ==
    [][(phase = "polling" /\ max_tries = 0 /\ phase' = "bailing")
         => ~\E s \in ranked_syms : HasData(s)]_vars

(* ----------------------- the claims on the helpers ---------------------- *)

\* the symbol a word stands for: itself, or with the T of the USD fallback
Meant(w) == IF w \in SymbolKeys THEN w ELSE w \o T

\* C31: every notation of a known symbol that differs from it only by
\* separator and letter case is canonicalized to that one symbol, a key of
\* client.symbols (a USD notation of a USDT symbol to the USDT symbol), and
\* an argument that matches no symbol makes the call raise.
C31_NotationsCanonicalizeAlike ==
    canon.kind # "none" =>
        /\ \A w \in SymbolKeys \cup {EUSD} :
              pair \in Notations(w) =>
                  /\ canon = [kind |-> "returned", value |-> Meant(w)]
                  /\ canon.value \in SymbolKeys
        /\ pair \in UNION {Notations(w) : w \in Strangers} \cup {<<>>}
              => canon.kind = "raised"

\* a lower-case notation with a slash has been canonicalized
C31_Witness ==
    /\ pair = <<"e", "/", "u", "s", "d">>
    /\ canon = [kind |-> "returned", value |-> EUSDT]

\* C32: for every accepted volume unit and every displayed symbol quoted in
\* another currency, the pair whose rate _convert_volume reads is one of
\* the symbols do_run_ticker subscribes to.
C32_ConversionPairSubscribed ==
    conv_read.kind = "rate" => conv_read.key \in chosen_subs.all_subs

\* C33: every task of the group reaches a suspension point after finitely
\* many steps, whatever the cache holds: no task is ever in a loop that
\* does not await.
C33_EveryTaskSuspends == \A t \in Tasks : task[t] # "spinning"

\* C34: a row task ends only when it is cancelled: with either client and
\* whatever its cache entry holds, it neither returns nor raises on its own.
C34_RowEndsOnlyWhenCancelled ==
    \A r \in Rows : task[r] \notin {"raised", "returned"}

\* C35: the watchdog marks a timestamp as stale only if the time elapsed
\* since it, by the local clock, exceeds stale_secs: a timestamp a little
\* ahead of the clock is not marked.
C35_MarkedOnlyWhenOlderThanStaleSecs ==
    judged = "stale" => elapsed > STALE_SECS

(* ------------------ the claims on concurrent subscriptions -------------- *)

\* task c is suspended in the call op for symbol s
Awaits(c, op, s) == pc[c] = "await" /\ call[c].op = op /\ call[c].sym = s

\* C36: under any interleaving of subscribe_ticker and unsubscribe_ticker
\* calls on one symbol, a subscribe request is transmitted only for a symbol
\* that is not in the subscription set, which then holds it, and an
\* unsubscribe request only when no other task's unsubscribe request for the
\* symbol is outstanding: one request for each change of the subscription.
C36_OneRequestPerChange ==
    [][\A c \in Callers, s \in Symbols :
          /\ (~Awaits(c, "subscribe_ticker", s)
              /\ Awaits(c, "subscribe_ticker", s)')
                => /\ s \notin ticker_subscriptions
                   /\ s \in ticker_subscriptions'
          /\ (~Awaits(c, "unsubscribe_ticker", s)
              /\ Awaits(c, "unsubscribe_ticker", s)')
                => ~\E d \in Callers \ {c} :
                       Awaits(d, "unsubscribe_ticker", s)]_vars

\* the streams the live websocket carries
LiveStreams == IF conn.recv = "running" THEN conn.streams ELSE {}

\* C37: whenever no _reload is in progress, the streams of the live
\* connection are self.streams: a stream added while another task's _reload
\* is connecting is not left out.
C37_LiveStreamsAreSelfStreams ==
    lock = "none" => LiveStreams = streams

\* C38: the assertions of BinanceClient.consume_response never fail: the
\* receive task is never ended by an AssertionError.
C38_AssertionsNeverFail == conn.recv # "died"

\* C39: a SIGINT delivered while do_run_ticker's handler is installed is
\* handled only where the task group it cancels exists, and do_run_ticker
\* never returns with its handler still installed.
C39_SigintHandledWithTasksAndRestored ==
    /\ "msg" \in DOMAIN out_futs => \A t \in Tasks : task[t] # "none"
    /\ phase = "returned" => ~sig_armed

\* C40: when the watchdog and the row tasks are started, every symbol of
\* all_subs, displayed or conversion pair, has a cache entry with its
\* timestamp and its last price.
C40_EntriesCompleteAtStart ==
    phase = "gathered" =>
        \A i \in DOMAIN all_subs :
            /\ all_subs[i] \in DOMAIN ticker
            /\ {"time", "last"} \subseteq DOMAIN ticker[all_subs[i]]

====
